---- MODULE Spec2Model ----
(***************************************************************************)
(* A model of the gotris multiplayer server (cmd/server/main.go): the hub  *)
(* (room registry, pending joins), the room state machine, the connection  *)
(* handlers and the timer goroutines a room spawns.                        *)
(*                                                                         *)
(* Granularity: one action per critical section (one acquisition of        *)
(* Hub.mu or Room.mu) of a handler; two adjacent sections are one action   *)
(* only where the second reads or writes nothing another goroutine can     *)
(* change in between.  Unlocked accesses (p.Ready in the ready handler,    *)
(* r.seed in startGame's broadcast) are steps of their own.                *)
(***************************************************************************)
EXTENDS Integers, Sequences, FiniteSets, Bags, TLC

\* ------------------------------------------------------------- bounds
MaxJoins == 3      \* handshakes (create-room / join-room) that issue a token
MaxRooms == 1      \* rooms created over a run
MaxTasks == 2      \* goroutines of one kind alive per room at a time
MaxSeed == 2       \* values rand.Int63() is drawn from: 1..MaxSeed
MaxClock == 61     \* seconds of wall clock modelled
MaxEvents == 3     \* frames and read failures the connections deliver over a run
MaxSends == 66     \* calls of one Player's send over a run (SpecSend)
DeskJoins == 2     \* handshakes that issue a token under SpecDesk
MaxDraws == 15     \* calls of Next on one PieceGenerator (SpecPieces)
MaxKeys == 4       \* key presses, ticks and messages one client handles (SpecGame)

\* -------------------------------------------------- program constants
minPlayers == 2
sendCap == 64      \* capacity of Player.sendCh
TokenTTL == 60
CountdownFrom == 3
PhaseLobby == 0
PhaseCountdown == 1
PhasePlaying == 2
PhaseGameOver == 3
BoardWidth == 10
BoardHeight == 20
GarbageColor == 8  \* Color of the filled cells of a garbage line
NoPlayer == 0      \* the empty player id "" (TargetID "", winnerID "")
NoRoom == 0        \* a nil *Room
NoToken == 0       \* the empty token query parameter

\* ------------------------------------------------------------- inputs
\* The room parameter of a request: missing, lower case, exact, another.
RoomParams == {"", "abcde", "ABCDE", "FGHJK"}
\* attack_power values of a lines_cleared report.
Powers == {0, 2, 4}
\* Steps by which the wall clock advances.
ClockSteps == {60, 61}

\* Ids come from Hub.nextID: a handshake draws a player id, then a token.
PlayerIds == {2 * k - 1 : k \in 1..MaxJoins}
Tokens == {2 * k : k \in 1..MaxJoins}
Seeds == 1..MaxSeed

VARIABLES
  hubRooms,      \* Hub.rooms: code -> room object
  hubPlayers,    \* Hub.players: the ids in the hub's player table
  pendingJoins,  \* Hub.pendingJoins: token -> PendingJoin
  nextID,        \* Hub.nextID
  now,           \* wall clock, seconds
  rooms,         \* the Room objects ever allocated, by allocation order
  players,       \* the Player objects, by id
  conn,          \* per connection goroutine (handlePlay): position and locals
  tasks,         \* bag of the goroutines rooms have spawned
  last,          \* the step just taken and the messages it queued (Player.send)
  issued,        \* history: token -> the PendingJoin registered under it
  consumes,      \* history: token -> number of consumeToken calls that returned it
  matchSeeds,    \* history: room -> seeds sent in game_start since it entered Playing
  events,        \* history: frames and read failures delivered so far
  sendCh,        \* one Player's sendCh: the messages buffered in the channel
  sendClosed,    \* that channel has been closed (handlePlay's cleanup)
  sendSeq,       \* history: calls of that Player's send so far
  gens,          \* client side: the PieceGenerators constructed, by client
  gameState,     \* client side: one client's Model.gameState (<<>> is nil)
  keys,          \* history: key presses, ticks and garbage messages it has handled
  holds,         \* history: calls of Hold that returned true since the last lock
  tui,           \* client side: each member's Model (screen, targetID, opponents, ...)
  toServer,      \* frames a client has sent that its connection has not read yet
  toClient,      \* messages queued to a client that its Model has not handled yet
  netClient,     \* netclient.Client: wsActive, conn, done, and ConnectToRoom's position
  readPumps,     \* the readPump goroutines the Client has started, in order
  wsConns,       \* the WebSocket connections it has dialled, in order
  program        \* the DisconnectedMsg values handed to the tea.Program

vars == <<hubRooms, hubPlayers, pendingJoins, nextID, now, rooms, players, conn,
          tasks, last, issued, consumes, matchSeeds, events, sendCh, sendClosed,
          sendSeq, gens, gameState, keys, holds, tui, toServer, toClient,
          netClient, readPumps, wsConns, program>>

\* The channel of the Player looked at on its own (SpecSend).
chanVars == <<sendCh, sendClosed, sendSeq>>

\* The client side (internal/game, internal/tui).
\* The multiplayer client: the Model's room state and its netclient.Client.
tuiVars == <<tui, toServer, toClient>>
netVars == <<netClient, readPumps, wsConns, program>>

gameVars == <<gens, gameState, keys, holds, tuiVars, netVars>>

\* The server side but for the step record.
serverVars == <<hubRooms, hubPlayers, pendingJoins, nextID, now, rooms, players,
                conn, tasks, issued, consumes, matchSeeds, events>>

\* ------------------------------------------------------------ helpers
ToUpper(s) == IF s = "abcde" THEN "ABCDE" ELSE s

DefaultName(n) == IF n = "" THEN "Player" ELSE n

NoOut == [q \in PlayerIds |-> <<>>]

Ev(op, pid, room, phase0, arg, res, out) ==
  [op |-> op, pid |-> pid, room |-> room, phase0 |-> phase0, arg |-> arg,
   res |-> res, out |-> out]

newRoom(code) ==
  [code |-> code, phase |-> PhaseLobby, players |-> {}, seed |-> 0,
   winnerID |-> NoPlayer, stopped |-> FALSE, closes |-> 0]

\* A Player whose roomID Room.addPlayer leaves empty.
newPlayerNoRoom(id, name, code) ==
  [Name |-> name, Ready |-> FALSE, Alive |-> TRUE, roomID |-> "",
   TargetID |-> NoPlayer, Snapshot |-> <<>>]

\* Snapshot: <<>> is nil, <<s>> points to the payload s.
newPlayer(id, name, code) ==
  [Name |-> name, Ready |-> FALSE, Alive |-> TRUE, roomID |-> code,
   TargetID |-> NoPlayer, Snapshot |-> <<>>]

\* Hub.getRoom: the room registered under the upper-cased code, or nil.
getRoom(code) ==
  IF ToUpper(code) \in DOMAIN hubRooms THEN hubRooms[ToUpper(code)] ELSE NoRoom

playerCount(r) == Cardinality(rooms[r].players)

Phase0(r) == IF r = NoRoom THEN PhaseLobby ELSE rooms[r].phase

\* Room.broadcastToAll of one message: every member is sent it once.
BroadcastOut(rm, msg) ==
  [q \in PlayerIds |-> IF q \in rm.players THEN <<msg>> ELSE <<>>]

LobbyUpdateMsg(rm, pl) ==
  [type |-> "lobby_update",
   lobby |-> {[id |-> q, name |-> pl[q].Name, ready |-> pl[q].Ready] : q \in rm.players}]

\* The server after main has built the hub, and one Player's channel.
InitServer ==
  /\ hubRooms = <<>>
  /\ hubPlayers = {}
  /\ pendingJoins = <<>>
  /\ nextID = 0
  /\ now = 0
  /\ rooms = <<>>
  /\ players = <<>>
  /\ conn = <<>>
  /\ tasks = EmptyBag
  /\ last = Ev("init", NoPlayer, NoRoom, PhaseLobby, 0, "", NoOut)
  /\ issued = <<>>
  /\ consumes = <<>>
  /\ matchSeeds = <<>>
  /\ events = 0
  /\ sendCh = <<>>
  /\ sendClosed = FALSE
  /\ sendSeq = 0

\* tui.NewModel, for the fields the room protocol touches: the main menu, no
\* target, no opponents, no game.  playerID is the key the Model is kept under.
\* (targetIndex, which only the rendering reads, is left out; gameState is nil,
\* a running game or one that is over.)
NewModel ==
  [screen |-> "menu", targetID |-> 0, opponents |-> <<>>, ready |-> FALSE,
   gameState |-> "nil"]

InitTui ==
  /\ tui = [p \in PlayerIds |-> NewModel]
  /\ toServer = [p \in PlayerIds |-> <<>>]
  /\ toClient = [p \in PlayerIds |-> <<>>]

\* netclient.New: no connection, nothing started.
InitNet ==
  /\ netClient = [wsActive |-> FALSE, conn |-> 0, done |-> 0, pc |-> "idle"]
  /\ readPumps = <<>>
  /\ wsConns = <<>>
  /\ program = <<>>

Init ==
  /\ InitServer
  /\ gens = <<>>
  /\ gameState = <<>>
  /\ keys = 0
  /\ holds = 0
  /\ InitTui
  /\ InitNet

\* ------------------------------------------------------- hub: tokens
WithoutKey(f, k) == [x \in DOMAIN f \ {k} |-> f[x]]

\* addPendingJoin's and consumeToken's test of a PendingJoin's age.
TokenExpired(createdAt) == now - createdAt > TokenTTL

\* Hub.addPendingJoin: sweep the expired entries, then register the token.
addPendingJoin(token, pj) ==
  LET kept == {t \in DOMAIN pendingJoins : ~TokenExpired(pendingJoins[t].CreatedAt)}
  IN  [t \in kept \cup {token} |-> IF t = token THEN pj ELSE pendingJoins[t]]

\* Hub.consumeToken without its delete: the token stays in the table.
PendingAfterConsumeKept(token) == pendingJoins

\* Hub.consumeToken: the table after the call (a known token is deleted before
\* its age is looked at).
PendingAfterConsume(token) == WithoutKey(pendingJoins, token)

\* Hub.consumeToken: whether the call returns a PendingJoin (not nil).
ConsumeSucceeds(token) ==
  /\ token \in DOMAIN pendingJoins
  /\ ~TokenExpired(pendingJoins[token].CreatedAt)

\* ----------------------------------------------- front desk (HTTP)
\* generateRoomCode returning the first code it draws.
codeFreeAlways(code) == TRUE

\* Hub.generateRoomCode, called under the hub's lock: it draws codes until one
\* is not a key of h.rooms; a code it can return is a free one.
codeFree(code) == code \notin DOMAIN hubRooms

\* handleCreateRoom: createRoom, generatePlayerID, generateToken, addPendingJoin.
\* code is the one generateRoomCode returns.
HandleCreateRoom(name, code) ==
  /\ nextID + 2 <= 2 * MaxJoins
  /\ codeFree(code)
  /\   LET r == Len(rooms) + 1
           pid == nextID + 1
           token == nextID + 2
           pj == [RoomCode |-> code, PlayerName |-> DefaultName(name),
                  PlayerID |-> pid, CreatedAt |-> now]
       IN  /\ rooms' = Append(rooms, newRoom(code))
           /\ hubRooms' = [c \in DOMAIN hubRooms \cup {code} |->
                              IF c = code THEN r ELSE hubRooms[c]]
           /\ matchSeeds' = matchSeeds @@ (r :> {})
           /\ pendingJoins' = addPendingJoin(token, pj)
           /\ issued' = issued @@ (token :> pj)
           /\ nextID' = nextID + 2
           /\ last' = Ev("createRoom", pid, r, PhaseLobby, token, "ok", NoOut)
  /\ UNCHANGED <<hubPlayers, now, players, conn, tasks, consumes>>
  /\ UNCHANGED <<events, chanVars, gameVars>>

\* handleJoinRoom's answer without its look at the room's phase.
JoinOutcomeAnyPhase(param) ==
  IF getRoom(ToUpper(param)) = NoRoom THEN "not_found" ELSE "ok"

\* handleJoinRoom's answer: 404 for an unknown room, 409 outside Lobby.
JoinOutcome(param) ==
  IF getRoom(ToUpper(param)) = NoRoom THEN "not_found"
  ELSE IF rooms[getRoom(ToUpper(param))].phase # PhaseLobby THEN "conflict"
  ELSE "ok"

\* handleJoinRoom.  The token is registered in the step that reads the phase:
\* a token registered later can also be presented later.
HandleJoinRoom(param, name) ==
  /\ nextID + 2 <= 2 * MaxJoins
  /\ LET code == ToUpper(param)
         r == getRoom(code)
         pid == nextID + 1
         token == nextID + 2
         pj == [RoomCode |-> code, PlayerName |-> DefaultName(name),
                PlayerID |-> pid, CreatedAt |-> now]
     IN  IF JoinOutcome(param) = "ok"
         THEN /\ pendingJoins' = addPendingJoin(token, pj)
              /\ issued' = issued @@ (token :> pj)
              /\ nextID' = nextID + 2
              /\ last' = Ev("joinRoom", pid, r, Phase0(r), token, "ok", NoOut)
         ELSE /\ last' = Ev("joinRoom", NoPlayer, r, Phase0(r), NoToken,
                            JoinOutcome(param), NoOut)
              /\ UNCHANGED <<pendingJoins, issued, nextID>>
  /\ UNCHANGED <<hubRooms, hubPlayers, now, rooms, players, conn, tasks, consumes,
                 matchSeeds>>
  /\ UNCHANGED <<events, chanVars, gameVars>>

\* handlePlay without the comparison of the token's room with the request's.
PlayOutcomeNoMatch(param, token) ==
  IF param = "" \/ token = NoToken THEN "bad_request"
  ELSE IF ~ConsumeSucceeds(token) THEN "unauthorized"
  ELSE IF getRoom(pendingJoins[token].RoomCode) = NoRoom THEN "not_found"
  ELSE "ok"

\* ------------------------------------------- realtime endpoint (/play)
\* handlePlay up to the upgrade: the status it answers, "ok" when it goes on.
PlayOutcome(param, token) ==
  IF param = "" \/ token = NoToken THEN "bad_request"
  ELSE IF ~ConsumeSucceeds(token) THEN "unauthorized"
  ELSE IF pendingJoins[token].RoomCode # ToUpper(param) THEN "forbidden"
  ELSE IF getRoom(pendingJoins[token].RoomCode) = NoRoom THEN "not_found"
  ELSE "ok"

\* handlePlay: parameter check, consumeToken, room match, getRoom.
PlayLookup(param, token) ==
  LET res == PlayOutcome(param, token)
      called == param # "" /\ token # NoToken          \* consumeToken is called
      pj == pendingJoins[token]
  IN  /\ pendingJoins' = IF called THEN PendingAfterConsume(token) ELSE pendingJoins
      /\ consumes' = IF called /\ ConsumeSucceeds(token)
                     THEN (IF token \in DOMAIN consumes
                           THEN [consumes EXCEPT ![token] = @ + 1]
                           ELSE consumes @@ (token :> 1))
                     ELSE consumes
      /\ IF res = "ok"
         THEN /\ pj.PlayerID \notin DOMAIN conn
              /\ conn' = conn @@ (pj.PlayerID :>
                           [pc |-> "admit", room |-> getRoom(pj.RoomCode),
                            hroom |-> NoRoom, token |-> token, param |-> param,
                            name |-> pj.PlayerName, ready |-> FALSE,
                            writer |-> "none"])
              /\ last' = Ev("playLookup", pj.PlayerID, getRoom(pj.RoomCode),
                            Phase0(getRoom(pj.RoomCode)), token, res, NoOut)
         ELSE /\ conn' = conn
              /\ last' = Ev("playReject", NoPlayer, NoRoom, PhaseLobby, token, res, NoOut)
      /\ UNCHANGED <<hubRooms, hubPlayers, nextID, now, rooms, players, tasks,
                     issued, matchSeeds>>
  /\ UNCHANGED <<events, chanVars, gameVars>>

\* handlePlay after the upgrade: newPlayer, hub.addPlayer, room.addPlayer, the
\* assign_id message and broadcastLobbyUpdate.
PlayAdmit(p) ==
  /\ p \in DOMAIN conn
  /\ conn[p].pc = "admit"
  /\ LET r == conn[p].room
         pl == players @@ (p :> newPlayer(p, conn[p].name, rooms[r].code))
         rm == [rooms[r] EXCEPT !.players = @ \cup {p}]
         lobby == BroadcastOut(rm, LobbyUpdateMsg(rm, pl))
     IN  /\ players' = pl
         /\ hubPlayers' = hubPlayers \cup {p}
         /\ rooms' = [rooms EXCEPT ![r] = rm]
         /\ conn' = [conn EXCEPT ![p].pc = "reading", ![p].writer = "running"]
         /\ last' = Ev("admit", p, r, rooms[r].phase, 0, "ok",
                       [lobby EXCEPT ![p] = <<[type |-> "assign_id", id |-> p]>> \o @])
  /\ UNCHANGED <<hubRooms, pendingJoins, nextID, now, tasks, issued, consumes,
                 matchSeeds>>
  /\ UNCHANGED <<events, chanVars, gameVars>>

\* handlePlay when upgrader.Upgrade fails (the request is no WebSocket
\* handshake): it returns; the token stays consumed and no Player is made.
UpgradeFail(p) ==
  /\ p \in DOMAIN conn
  /\ conn[p].pc = "admit"
  /\ conn' = WithoutKey(conn, p)
  /\ last' = Ev("upgradeFail", NoPlayer, NoRoom, PhaseLobby, conn[p].token, "upgrade", NoOut)
  /\ UNCHANGED <<hubRooms, hubPlayers, pendingJoins, nextID, now, rooms, players,
                 tasks, issued, consumes, matchSeeds>>
  /\ UNCHANGED <<events, chanVars, gameVars>>

\* The wall clock.
Advance(d) ==
  /\ now + d <= MaxClock
  /\ now' = now + d
  /\ last' = Ev("advance", NoPlayer, NoRoom, PhaseLobby, d, "", NoOut)
  /\ UNCHANGED <<hubRooms, hubPlayers, pendingJoins, nextID, rooms, players, conn,
                 tasks, issued, consumes, matchSeeds>>
  /\ UNCHANGED <<events, chanVars, gameVars>>

\* ------------------------------------------------------------- tasks
Task(kind, r, i, ids) == [kind |-> kind, room |-> r, i |-> i, ids |-> ids]

TaskCount(kinds, r) ==
  BagCardinality([t \in {u \in BagToSet(tasks) : u.kind \in kinds /\ u.room = r}
                    |-> tasks[t]])

\* A countdown goroutine goes on as startGame and ends by starting broadcastLoop.
CountdownKinds == {"countdown", "startGame", "gameStart", "broadcastLoop"}

\* Room.canStart without its loop over the ready flags.
canStartCountOnly(rm, pl) == Cardinality(rm.players) >= minPlayers

\* -------------------------------------------------------------- room
\* Room.canStart.
canStart(rm, pl) ==
  /\ Cardinality(rm.players) >= minPlayers
  /\ \A q \in rm.players : pl[q].Ready

AliveMembers(rm, pl) == {q \in rm.players : pl[q].Alive}

\* checkWinCondition's test: the match is over.
WinConditionHolds(rm, pl) ==
  /\ Cardinality(AliveMembers(rm, pl)) <= 1
  /\ Cardinality(rm.players) >= minPlayers

\* checkWinCondition's winnerID: the sole alive member, or "".
WinnerOf(rm, pl) ==
  IF Cardinality(AliveMembers(rm, pl)) = 1
  THEN CHOOSE q \in AliveMembers(rm, pl) : TRUE
  ELSE NoPlayer

\* checkWinCondition with the two ranks the wrong way round.
RankOfSwapped(q, winnerID, totalPlayers) == IF q = winnerID THEN totalPlayers ELSE 1

\* checkWinCondition's rank of member q.
RankOf(q, winnerID, totalPlayers) == IF q = winnerID THEN 1 ELSE totalPlayers

MatchOverMsg(q, rm, pl) ==
  LET w == WinnerOf(rm, pl)
  IN  [type |-> "match_over", winner_id |-> w,
       winner_name |-> IF w = NoPlayer THEN "" ELSE pl[w].Name,
       your_rank |-> RankOf(q, w, Cardinality(rm.players))]

\* checkWinCondition (called with Room.mu held): the room after it.
RoomAfterCheckWin(rm, pl) ==
  IF WinConditionHolds(rm, pl)
  THEN [rm EXCEPT !.phase = PhaseGameOver,
                  !.winnerID = IF WinnerOf(rm, pl) # NoPlayer THEN WinnerOf(rm, pl) ELSE @]
  ELSE rm

\* checkWinCondition: the match_over messages it sends.
CheckWinOut(rm, pl) ==
  IF WinConditionHolds(rm, pl)
  THEN [q \in PlayerIds |-> IF q \in rm.players THEN <<MatchOverMsg(q, rm, pl)>> ELSE <<>>]
  ELSE NoOut

\* checkWinCondition: the reset goroutine it starts.
TasksAfterCheckWin(r, rm, pl) ==
  IF WinConditionHolds(rm, pl)
  THEN tasks (+) SetToBag({Task("reset", r, 0, {})})
  ELSE tasks

\* The cap on reset goroutines alive at once.
MayCheckWin(r, rm, pl) ==
  WinConditionHolds(rm, pl) => TaskCount({"reset", "resetBroadcast"}, r) < MaxTasks

\* Room.removePlayer: whether checkWinCondition is called.
RemoveChecksWin(rm) == rm.phase = PhasePlaying

\* Room.removePlayer(p) on room object r, as one step of goroutine p.
RemovePlayerStep(p, r, op, pcNext) ==
  LET member == p \in rooms[r].players
      freed == IF op = "disconnect"             \* cleanup: p.Snapshot = nil
               THEN [players EXCEPT ![p].Snapshot = <<>>] ELSE players
      pl == IF member THEN [freed EXCEPT ![p].roomID = ""] ELSE freed
      rm == [rooms[r] EXCEPT !.players = @ \ {p}]
      check == RemoveChecksWin(rm)
  IN  /\ check => MayCheckWin(r, rm, pl)
      /\ players' = pl
      /\ rooms' = [rooms EXCEPT ![r] = IF check THEN RoomAfterCheckWin(rm, pl) ELSE rm]
      /\ tasks' = IF check THEN TasksAfterCheckWin(r, rm, pl) ELSE tasks
      /\ conn' = [conn EXCEPT ![p].pc = pcNext, ![p].hroom = r]
      /\ last' = Ev(op, p, r, rooms[r].phase, 0, "",
                    IF check THEN CheckWinOut(rm, pl) ELSE NoOut)
      /\ UNCHANGED <<hubRooms, hubPlayers, pendingJoins, nextID, now, issued,
                     consumes, matchSeeds>>

Reading(p) == p \in DOMAIN conn /\ conn[p].pc = "reading"

\* readPump delivers one more frame or read failure.
Frame ==
  events < MaxEvents /\ events' = events + 1 /\ UNCHANGED <<chanVars, gameVars>>

\* A handler that returns without touching anything.
Ignore(p, op) ==
  /\ last' = Ev(op, p, NoRoom, PhaseLobby, 0, "ignored", NoOut)
  /\ UNCHANGED <<hubRooms, hubPlayers, pendingJoins, nextID, now, rooms, players,
                 conn, tasks, issued, consumes, matchSeeds>>

\* ------------------------------------------- handleMessage: MsgReady
\* getRoom(p.roomID), then the unlocked write of p.Ready.
onReady(p, ready) ==
  /\ Reading(p)
  /\ LET r == getRoom(players[p].roomID)
     IN  IF r = NoRoom
         THEN Ignore(p, "ready")
         ELSE /\ players' = [players EXCEPT ![p].Ready = ready]
              /\ conn' = [conn EXCEPT ![p].pc = "ready_check", ![p].hroom = r,
                                      ![p].ready = ready]
              /\ last' = Ev("ready", p, r, rooms[r].phase, IF ready THEN 1 ELSE 0, "", NoOut)
              /\ UNCHANGED <<hubRooms, hubPlayers, pendingJoins, nextID, now, rooms,
                             tasks, issued, consumes, matchSeeds>>

\* The frame read by readPump and handled.
RecvReady(p, ready) == onReady(p, ready) /\ Frame

\* broadcastLobbyUpdate, then canStart (each takes the read lock; the
\* broadcast changes nothing the other reads).
ReadyCheck(p) ==
  /\ p \in DOMAIN conn
  /\ conn[p].pc = "ready_check"
  /\ LET r == conn[p].hroom
         ok == canStart(rooms[r], players)
     IN  /\ conn' = [conn EXCEPT ![p].pc = IF ok THEN "ready_start" ELSE "reading",
                                 ![p].ready = IF ok THEN @ ELSE FALSE]
         /\ last' = Ev("readyCheck", p, r, rooms[r].phase, IF conn[p].ready THEN 1 ELSE 0,
                       IF ok THEN "start" ELSE "wait",
                       BroadcastOut(rooms[r], LobbyUpdateMsg(rooms[r], players)))
  /\ UNCHANGED <<hubRooms, hubPlayers, pendingJoins, nextID, now, rooms, players,
                 tasks, issued, consumes, matchSeeds>>
  /\ UNCHANGED <<events, chanVars, gameVars>>

\* startCountdown: the phase change under the write lock and the goroutine.
ReadyStart(p) ==
  /\ p \in DOMAIN conn
  /\ conn[p].pc = "ready_start"
  /\ LET r == conn[p].hroom
     IN  /\ TaskCount(CountdownKinds, r) < MaxTasks
         /\ rooms' = [rooms EXCEPT ![r].phase = PhaseCountdown]
         /\ tasks' = tasks (+) SetToBag({Task("countdown", r, CountdownFrom, {})})
         /\ conn' = [conn EXCEPT ![p].pc = "reading", ![p].ready = FALSE]
         /\ last' = Ev("startCountdown", p, r, rooms[r].phase,
                       IF conn[p].ready THEN 1 ELSE 0, "", NoOut)
  /\ UNCHANGED <<hubRooms, hubPlayers, pendingJoins, nextID, now, players, issued,
                 consumes, matchSeeds>>
  /\ UNCHANGED <<events, chanVars, gameVars>>

\* --------------------------------------- handleMessage: MsgSetTarget
\* The unlocked write of p.TargetID.
onSetTarget(p, target) ==
  /\ Reading(p)
  /\ players' = [players EXCEPT ![p].TargetID = target]
  /\ last' = Ev("setTarget", p, NoRoom, PhaseLobby, target, "", NoOut)
  /\ UNCHANGED <<hubRooms, hubPlayers, pendingJoins, nextID, now, rooms, conn,
                 tasks, issued, consumes, matchSeeds>>

RecvSetTarget(p, target) == onSetTarget(p, target) /\ Frame

\* ----------------------------------- handleMessage: MsgBoardSnapshot
RecvBoardSnapshot(p, snap) ==
  /\ Reading(p)
  /\ players' = [players EXCEPT ![p].Snapshot = <<snap>>]
  /\ last' = Ev("boardSnapshot", p, NoRoom, PhaseLobby, snap.Score, "", NoOut)
  /\ UNCHANGED <<hubRooms, hubPlayers, pendingJoins, nextID, now, rooms, conn,
                 tasks, issued, consumes, matchSeeds>>
  /\ Frame

\* handleLinesCleared without the check that the stored target is alive.
StoredTargetValidDead(rm, pl, a) ==
  /\ pl[a].TargetID # NoPlayer
  /\ pl[a].TargetID \in rm.players
  /\ pl[a].TargetID # a

\* ------------------------------------ handleMessage: MsgLinesCleared
\* handleLinesCleared: the stored target is used if it is an alive member
\* other than the attacker.
StoredTargetValid(rm, pl, a) ==
  /\ pl[a].TargetID # NoPlayer
  /\ pl[a].TargetID \in rm.players
  /\ pl[pl[a].TargetID].Alive
  /\ pl[a].TargetID # a

\* handleLinesCleared: the alive opponents rand.Intn picks among.
Candidates(rm, pl, a) == {q \in rm.players : q # a /\ pl[q].Alive}

\* handleLinesCleared: the players the garbage may be sent to.
ResolveTargets(rm, pl, a) ==
  IF a \notin rm.players THEN {}
  ELSE IF StoredTargetValid(rm, pl, a) THEN {pl[a].TargetID}
  ELSE Candidates(rm, pl, a)

GarbageMsg(power, a) == [type |-> "receive_garbage", lines |-> power, attacker_id |-> a]

\* The messages handleLinesCleared sends when it resolves target t.
GarbageOut(t, power, a) ==
  [q \in PlayerIds |-> IF q = t THEN <<GarbageMsg(power, a)>> ELSE <<>>]

RecvLinesCleared(p, power) ==
  /\ Reading(p)
  /\ LET r == getRoom(players[p].roomID)
     IN  IF r = NoRoom \/ power <= 0 \/ ResolveTargets(rooms[r], players, p) = {}
         THEN last' = Ev("linesCleared", p, r, Phase0(r), power, "dropped", NoOut)
         ELSE \E t \in ResolveTargets(rooms[r], players, p) :
                last' = Ev("linesCleared", p, r, Phase0(r), power, "sent",
                           GarbageOut(t, power, p))
  /\ UNCHANGED <<hubRooms, hubPlayers, pendingJoins, nextID, now, rooms, players,
                 conn, tasks, issued, consumes, matchSeeds>>
  /\ Frame

\* -------------------------------------- handleMessage: MsgPlayerDead
\* getRoom(p.roomID), then Room.handlePlayerDead.
onPlayerDead(p) ==
  /\ Reading(p)
  /\ LET r == getRoom(players[p].roomID)
     IN  IF r = NoRoom
         THEN Ignore(p, "playerDead")
         ELSE LET pl == IF p \in rooms[r].players
                        THEN [players EXCEPT ![p].Alive = FALSE] ELSE players
                  rm == rooms[r]
              IN  /\ MayCheckWin(r, rm, pl)
                  /\ players' = pl
                  /\ rooms' = [rooms EXCEPT ![r] = RoomAfterCheckWin(rm, pl)]
                  /\ tasks' = TasksAfterCheckWin(r, rm, pl)
                  /\ last' = Ev("playerDead", p, r, rm.phase, 0, "", CheckWinOut(rm, pl))
                  /\ UNCHANGED <<hubRooms, hubPlayers, pendingJoins, nextID, now,
                                 conn, issued, consumes, matchSeeds>>

RecvPlayerDead(p) == onPlayerDead(p) /\ Frame

\* --------------------------------------- handleMessage: MsgLeaveRoom
RecvLeave(p) ==
  /\ Reading(p)
  /\ IF players[p].roomID = "" \/ getRoom(players[p].roomID) = NoRoom
     THEN Ignore(p, "leave")
     ELSE RemovePlayerStep(p, getRoom(players[p].roomID), "leave", "lv_count")
  /\ Frame

\* ------------------------------- handlePlay: cleanup after readPump
\* readPump returns (read error, close or deadline); room.removePlayer on the
\* room handlePlay looked up, then close(p.sendCh).
Disconnect(p) ==
  /\ Reading(p)
  /\ RemovePlayerStep(p, conn[p].room, "disconnect", "dc_count")
  /\ Frame

\* handlePlay's cleanup has run close(p.sendCh) (right after room.removePlayer).
sendChClosed(p) == conn[p].pc \in {"dc_count", "dc_reset", "dc_gc", "done"}

\* writePump once sendCh is closed: it writes what is still buffered, receives
\* !ok, writes the close message and returns (closing the connection).
WriterExit(p) ==
  /\ p \in DOMAIN conn
  /\ conn[p].writer = "running"
  /\ sendChClosed(p)
  /\ conn' = [conn EXCEPT ![p].writer = "exited"]
  /\ last' = Ev("writerExit", p, conn[p].room, rooms[conn[p].room].phase, 0, "", NoOut)
  /\ UNCHANGED <<hubRooms, hubPlayers, pendingJoins, nextID, now, rooms, players,
                 tasks, issued, consumes, matchSeeds>>
  /\ UNCHANGED <<events, chanVars, gameVars>>

\* Where a goroutine goes after the cleanup of a leave / of a disconnect.
AfterCleanup(pc) == IF pc \in {"lv_count", "lv_gc"} THEN "reading" ELSE "done"

\* room.playerCount() == 0 ?  If not, broadcastLobbyUpdate (and, on a
\* disconnect, hub.removePlayer: handlePlay returns and nothing refers to the
\* Player any more, so it leaves the model's heap).
CountStep(p) ==
  /\ p \in DOMAIN conn
  /\ conn[p].pc \in {"lv_count", "dc_count"}
  /\ LET r == conn[p].hroom
         pc == conn[p].pc
     IN  IF playerCount(r) = 0
         THEN /\ conn' = [conn EXCEPT ![p].pc = IF pc = "lv_count" THEN "lv_reset"
                                                 ELSE "dc_reset"]
              /\ last' = Ev("count", p, r, rooms[r].phase, 0, "empty", NoOut)
              /\ UNCHANGED hubPlayers
         ELSE /\ conn' = [conn EXCEPT ![p].pc = AfterCleanup(pc)]
              /\ hubPlayers' = IF pc = "dc_count" THEN hubPlayers \ {p} ELSE hubPlayers
              /\ last' = Ev("count", p, r, rooms[r].phase, 0, "members",
                            BroadcastOut(rooms[r], LobbyUpdateMsg(rooms[r], players)))
  /\ players' = IF conn'[p].pc = "done" THEN WithoutKey(players, p) ELSE players
  /\ UNCHANGED <<hubRooms, pendingJoins, nextID, now, rooms, tasks,
                 issued, consumes, matchSeeds>>
  /\ UNCHANGED <<events, chanVars, gameVars>>

\* Room.resetToLobby.
ResetStep(p) ==
  /\ p \in DOMAIN conn
  /\ conn[p].pc \in {"lv_reset", "dc_reset"}
  /\ LET r == conn[p].hroom
     IN  /\ rooms' = [rooms EXCEPT ![r].phase = PhaseLobby]
         /\ players' = [q \in DOMAIN players |->
                          IF q \in rooms[r].players
                          THEN [players[q] EXCEPT !.Ready = FALSE, !.Alive = TRUE]
                          ELSE players[q]]
         /\ conn' = [conn EXCEPT ![p].pc = IF @ = "lv_reset" THEN "lv_gc" ELSE "dc_gc"]
         /\ last' = Ev("resetToLobby", p, r, rooms[r].phase, 0, "", NoOut)
  /\ UNCHANGED <<hubRooms, hubPlayers, pendingJoins, nextID, now, tasks, issued,
                 consumes, matchSeeds>>
  /\ UNCHANGED <<events, chanVars, gameVars>>

\* Hub.removeRoomIfEmpty without its second look at playerCount().
RemovesRoomUnchecked(code) == code \in DOMAIN hubRooms

\* Hub.removeRoomIfEmpty: whether the room registered under the code goes.
RemovesRoom(code) ==
  /\ code \in DOMAIN hubRooms
  /\ playerCount(hubRooms[code]) = 0

\* removeRoomIfEmpty's select if it had no default case.
closeCalledNever(stopped) == FALSE

\* removeRoomIfEmpty's select on room.stopCh: a receive from the closed channel
\* succeeds and nothing is done; otherwise the default case runs
\* close(room.stopCh).  stopped: the channel is closed; closes: the calls of
\* close on it so far (a second one would panic).
closeCalled(stopped) == ~stopped

\* Hub.removeRoomIfEmpty(room.code) (and, on a disconnect, hub.removePlayer).
GcStep(p) ==
  /\ p \in DOMAIN conn
  /\ conn[p].pc \in {"lv_gc", "dc_gc"}
  /\ LET code == rooms[conn[p].hroom].code
     IN  /\ IF RemovesRoom(code)
            THEN /\ rooms' = [rooms EXCEPT
                            ![hubRooms[code]].stopped = @ \/ closeCalled(@),
                            ![hubRooms[code]].closes =
                               IF closeCalled(rooms[hubRooms[code]].stopped)
                               THEN @ + 1 ELSE @]
                 /\ hubRooms' = WithoutKey(hubRooms, code)
            ELSE UNCHANGED <<rooms, hubRooms>>
         /\ conn' = [conn EXCEPT ![p].pc = AfterCleanup(@)]
         /\ hubPlayers' = IF conn[p].pc = "dc_gc" THEN hubPlayers \ {p} ELSE hubPlayers
         /\ last' = Ev("removeRoomIfEmpty", p, conn[p].hroom, rooms[conn[p].hroom].phase,
                       0, IF RemovesRoom(code) THEN "removed" ELSE "kept", NoOut)
  /\ players' = IF conn'[p].pc = "done" THEN WithoutKey(players, p) ELSE players
  /\ UNCHANGED <<pendingJoins, nextID, now, tasks, issued, consumes, matchSeeds>>
  /\ UNCHANGED <<events, chanVars, gameVars>>

\* ------------------------------------------- goroutines of a room
Replace(t, u) == (tasks (-) SetToBag({t})) (+) SetToBag({u})

Remove(t) == tasks (-) SetToBag({t})

\* startCountdown's goroutine if it gave up once a member is no longer ready.
CountdownTickCancellable(t) ==
  /\ t.kind = "countdown"
  /\ tasks' = IF ~canStart(rooms[t.room], players) THEN Remove(t)
              ELSE Replace(t, IF t.i > 1 THEN Task("countdown", t.room, t.i - 1, {})
                              ELSE Task("startGame", t.room, 0, {}))
  /\ last' = Ev("countdown", NoPlayer, t.room, rooms[t.room].phase, t.i, "",
                BroadcastOut(rooms[t.room], [type |-> "countdown", value |-> t.i]))
  /\ UNCHANGED <<hubRooms, hubPlayers, pendingJoins, nextID, now, rooms, players,
                 conn, issued, consumes, matchSeeds>>
  /\ UNCHANGED <<events, chanVars, gameVars>>

\* startCountdown's goroutine, one iteration: broadcast countdown{i}, sleep a
\* second.  (Room.countdown, which it also sets, is read nowhere: not modelled.)
CountdownTick(t) ==
  /\ t.kind = "countdown"
  /\ tasks' = Replace(t, IF t.i > 1 THEN Task("countdown", t.room, t.i - 1, {})
                         ELSE Task("startGame", t.room, 0, {}))
  /\ last' = Ev("countdown", NoPlayer, t.room, rooms[t.room].phase, t.i, "",
                BroadcastOut(rooms[t.room], [type |-> "countdown", value |-> t.i]))
  /\ UNCHANGED <<hubRooms, hubPlayers, pendingJoins, nextID, now, rooms, players,
                 conn, issued, consumes, matchSeeds>>
  /\ UNCHANGED <<events, chanVars, gameVars>>

\* startGame, the section under the write lock: phase, seed, winnerID, flags.
StartGame(t, seed) ==
  /\ t.kind = "startGame"
  /\ LET r == t.room
     IN  /\ rooms' = [rooms EXCEPT ![r].phase = PhasePlaying, ![r].seed = seed,
                                   ![r].winnerID = NoPlayer]
         /\ players' = [q \in DOMAIN players |->
                          IF q \in rooms[r].players
                          THEN [players[q] EXCEPT !.Alive = TRUE, !.Ready = FALSE,
                                                  !.Snapshot = <<>>]
                          ELSE players[q]]
         /\ tasks' = Replace(t, Task("gameStart", r, 0, rooms[r].players))
         /\ matchSeeds' = [matchSeeds EXCEPT
                             ![r] = IF rooms[r].phase # PhasePlaying THEN {} ELSE @]
         /\ last' = Ev("startGame", NoPlayer, r, rooms[r].phase, seed, "", NoOut)
  /\ UNCHANGED <<hubRooms, hubPlayers, pendingJoins, nextID, now, conn, issued,
                 consumes>>
  /\ UNCHANGED <<events, chanVars, gameVars>>

\* startGame after the unlock: broadcast game_start{r.seed, playerIDs} (r.seed
\* is read here, without the lock), then go broadcastLoop.
GameStartBroadcast(t) ==
  /\ t.kind = "gameStart"
  /\ LET r == t.room
         msg == [type |-> "game_start", seed |-> rooms[r].seed, ids |-> t.ids]
     IN  /\ tasks' = Replace(t, Task("broadcastLoop", r, 0, {}))
         /\ matchSeeds' = [matchSeeds EXCEPT
                             ![r] = IF rooms[r].players # {} THEN @ \cup {rooms[r].seed}
                                    ELSE @]
         /\ last' = Ev("gameStart", NoPlayer, r, rooms[r].phase, rooms[r].seed, "",
                       BroadcastOut(rooms[r], msg))
  /\ UNCHANGED <<hubRooms, hubPlayers, pendingJoins, nextID, now, rooms, players,
                 conn, issued, consumes>>
  /\ UNCHANGED <<events, chanVars, gameVars>>

OpponentUpdateMsg(q, rm, pl) ==
  [type |-> "opponent_update",
   opponents |-> {[id |-> o, name |-> pl[o].Name,
                   score |-> IF pl[o].Snapshot = <<>> THEN 0 ELSE pl[o].Snapshot[1].Score,
                   alive |-> IF pl[o].Snapshot = <<>> THEN pl[o].Alive
                             ELSE pl[o].Snapshot[1].Alive] : o \in rm.players \ {q}}]

\* broadcastLoop, one turn of its select.  viaStop: the stopCh case was taken
\* (it can be once the channel is closed); otherwise the ticker case: return
\* outside Playing, else sendOpponentUpdates.
BroadcastLoopStep(t, viaStop) ==
  /\ t.kind = "broadcastLoop"
  /\ viaStop => rooms[t.room].stopped
  /\ LET rm == rooms[t.room]
     IN  IF viaStop \/ rm.phase # PhasePlaying
         THEN /\ tasks' = Remove(t)
              /\ last' = Ev("broadcastLoop", NoPlayer, t.room, rm.phase, 0,
                            IF viaStop THEN "stopped" ELSE "return", NoOut)
         ELSE /\ tasks' = tasks
              /\ last' = Ev("broadcastLoop", NoPlayer, t.room, rm.phase, 0, "tick",
                            [q \in PlayerIds |->
                               IF q \in rm.players
                               THEN <<OpponentUpdateMsg(q, rm, players)>> ELSE <<>>])
  /\ UNCHANGED <<hubRooms, hubPlayers, pendingJoins, nextID, now, rooms, players,
                 conn, issued, consumes, matchSeeds>>
  /\ UNCHANGED <<events, chanVars, gameVars>>

\* checkWinCondition's goroutine if it only put the phase back.
ResetTickPhaseOnly(t) ==
  /\ t.kind = "reset"
  /\ rooms' = [rooms EXCEPT ![t.room].phase = PhaseLobby]
  /\ tasks' = Replace(t, Task("resetBroadcast", t.room, 0, {}))
  /\ last' = Ev("reset", NoPlayer, t.room, rooms[t.room].phase, 0, "", NoOut)
  /\ UNCHANGED <<hubRooms, hubPlayers, pendingJoins, nextID, now, players, conn,
                 issued, consumes, matchSeeds>>
  /\ UNCHANGED <<events, chanVars, gameVars>>

\* checkWinCondition's goroutine, after its 2 s sleep, the section under the
\* write lock: back to Lobby, flags reset.
ResetTick(t) ==
  /\ t.kind = "reset"
  /\ LET r == t.room
         pl == [q \in DOMAIN players |->
                  IF q \in rooms[r].players
                  THEN [players[q] EXCEPT !.Alive = TRUE, !.Ready = FALSE]
                  ELSE players[q]]
         rm == [rooms[r] EXCEPT !.phase = PhaseLobby]
     IN  /\ rooms' = [rooms EXCEPT ![r] = rm]
         /\ players' = pl
         /\ tasks' = Replace(t, Task("resetBroadcast", r, 0, {}))
         /\ last' = Ev("reset", NoPlayer, r, rooms[r].phase, 0, "", NoOut)
  /\ UNCHANGED <<hubRooms, hubPlayers, pendingJoins, nextID, now, conn, issued,
                 consumes, matchSeeds>>
  /\ UNCHANGED <<events, chanVars, gameVars>>

\* checkWinCondition's goroutine after the unlock: broadcastLobbyUpdate.
ResetBroadcast(t) ==
  /\ t.kind = "resetBroadcast"
  /\ tasks' = Remove(t)
  /\ last' = Ev("resetBroadcast", NoPlayer, t.room, rooms[t.room].phase, 0, "",
                BroadcastOut(rooms[t.room], LobbyUpdateMsg(rooms[t.room], players)))
  /\ UNCHANGED <<hubRooms, hubPlayers, pendingJoins, nextID, now, rooms, players,
                 conn, issued, consumes, matchSeeds>>
  /\ UNCHANGED <<events, chanVars, gameVars>>

\* ------------------------------------------------- specifications
\* The room lifecycle: well-formed handshakes for one room code, the lobby,
\* the match, the timers and disconnects.
Next ==
  \/ Len(rooms) < MaxRooms /\ HandleCreateRoom("", "ABCDE")
  \/ HandleJoinRoom("abcde", "ann")
  \/ \E token \in DOMAIN pendingJoins : PlayLookup("abcde", token)
  \/ \E p \in PlayerIds : PlayAdmit(p)
  \/ \E p \in PlayerIds : Disconnect(p)
  \/ \E p \in PlayerIds : CountStep(p)
  \/ \E p \in PlayerIds : ResetStep(p)
  \/ \E p \in PlayerIds : GcStep(p)
  \/ \E p \in PlayerIds, ready \in BOOLEAN : RecvReady(p, ready)
  \/ \E p \in PlayerIds : ReadyCheck(p)
  \/ \E p \in PlayerIds : ReadyStart(p)
  \/ \E p \in PlayerIds : RecvPlayerDead(p)
  \/ \E t \in BagToSet(tasks) : CountdownTick(t)
  \/ \E t \in BagToSet(tasks), seed \in Seeds : StartGame(t, seed)
  \/ \E t \in BagToSet(tasks) : GameStartBroadcast(t)
  \/ \E t \in BagToSet(tasks), viaStop \in BOOLEAN : BroadcastLoopStep(t, viaStop)
  \/ \E t \in BagToSet(tasks) : ResetTick(t)
  \/ \E t \in BagToSet(tasks) : ResetBroadcast(t)

Spec == Init /\ [][Next]_vars

\* The registry and the handshake: any request, tokens ageing, members
\* leaving and disconnecting; no match is played.
NextDesk ==
  \/ Len(rooms) < MaxRooms /\ nextID < 2 * DeskJoins /\ HandleCreateRoom("", "ABCDE")
  \/ \E param \in RoomParams : nextID < 2 * DeskJoins /\ HandleJoinRoom(param, "ann")
  \/ \E param \in RoomParams, token \in Tokens \cup {NoToken} :
       PlayLookup(param, token)
  \/ \E p \in PlayerIds : PlayAdmit(p)
  \/ \E p \in PlayerIds : UpgradeFail(p)
  \/ \E p \in PlayerIds : Disconnect(p)
  \/ \E p \in PlayerIds : RecvLeave(p)
  \/ \E p \in PlayerIds : CountStep(p)
  \/ \E p \in PlayerIds : ResetStep(p)
  \/ \E p \in PlayerIds : GcStep(p)
  \/ \E d \in ClockSteps : Advance(d)

SpecDesk == Init /\ [][NextDesk]_vars

\* The attack router: members of one room choosing targets, dying, reporting
\* cleared lines and disconnecting.
NextAttack ==
  \/ Len(rooms) < MaxRooms /\ HandleCreateRoom("", "ABCDE")
  \/ HandleJoinRoom("abcde", "ann")
  \/ \E token \in DOMAIN pendingJoins : PlayLookup("abcde", token)
  \/ \E p \in PlayerIds : PlayAdmit(p)
  \/ \E p \in PlayerIds : Disconnect(p)
  \/ \E p \in PlayerIds : CountStep(p)
  \/ \E p \in PlayerIds : ResetStep(p)
  \/ \E p \in PlayerIds : GcStep(p)
  \/ \E p \in PlayerIds : RecvLeave(p)
  \/ \E p \in PlayerIds : RecvPlayerDead(p)
  \/ \E p \in PlayerIds, target \in PlayerIds \cup {NoPlayer} :
       RecvSetTarget(p, target)
  \/ \E p \in PlayerIds, power \in Powers : RecvLinesCleared(p, power)
  \/ \E t \in BagToSet(tasks) : ResetTick(t)
  \/ \E t \in BagToSet(tasks) : ResetBroadcast(t)

SpecAttack == Init /\ [][NextAttack]_vars

\* ------------------------------------------------------------ claims
RoomIds == 1..Len(rooms)

\* C1: within one match (one entry of a room into Playing) the game_start
\* messages the members are sent all carry one and the same seed.
C1_OneSeedPerMatch ==
  \A r \in RoomIds : Cardinality(matchSeeds[r]) <= 1

\* C2: a room goes from Lobby to Countdown only at a moment when it has at
\* least 2 members and every member is ready.
C2_CountdownOnlyWhenAllReady ==
  (last.op = "startCountdown" /\ last.phase0 = PhaseLobby)
    => canStart(rooms[last.room], players)

PhaseCycle ==
  {<<PhaseLobby, PhaseCountdown>>, <<PhaseCountdown, PhasePlaying>>,
   <<PhasePlaying, PhaseGameOver>>, <<PhaseGameOver, PhaseLobby>>}

\* C3: while a room has members, every change of its phase is one of
\* Lobby -> Countdown -> Playing -> GameOver -> Lobby.
C3_PhaseCycleOnly ==
  (/\ last.room # NoRoom
   /\ rooms[last.room].players # {}
   /\ rooms[last.room].phase # last.phase0)
    => <<last.phase0, rooms[last.room].phase>> \in PhaseCycle

\* C4: while a room is Playing, right after a player_dead report or a member's
\* removal that leaves at most one alive member, the room is in GameOver and
\* the sole alive member (if any) is recorded as the winner.
C4_GameOverWhenOneAlive ==
  (/\ last.op \in {"playerDead", "disconnect", "leave"}
   /\ last.phase0 = PhasePlaying
   /\ Cardinality(AliveMembers(rooms[last.room], players)) <= 1)
    => /\ rooms[last.room].phase = PhaseGameOver
       /\ \A w \in AliveMembers(rooms[last.room], players) :
            rooms[last.room].winnerID = w

\* checkWinCondition ran in the step just taken (handlePlayerDead always calls
\* it, removePlayer calls it for a room that is Playing).
RanCheckWin ==
  \/ last.op = "playerDead" /\ last.room # NoRoom
  \/ last.op \in {"disconnect", "leave"} /\ last.phase0 = PhasePlaying

\* C5: when checkWinCondition finds exactly one alive member w among N >= 2
\* members, the room is in GameOver and every member is sent exactly one
\* message, a match_over naming w (id and name) as winner, with your_rank 1 for
\* w and N for every other member; nobody else is sent anything.
C5_MatchOverRanks ==
  RanCheckWin =>
    LET rm == rooms[last.room]
        alive == AliveMembers(rm, players)
        n == Cardinality(rm.players)
    IN  (Cardinality(alive) = 1 /\ n >= 2) =>
          /\ rm.phase = PhaseGameOver
          /\ \A w \in alive : \A q \in PlayerIds :
               last.out[q] =
                 IF q \in rm.players
                 THEN <<[type |-> "match_over", winner_id |-> w,
                         winner_name |-> players[w].Name,
                         your_rank |-> IF q = w THEN 1 ELSE n]>>
                 ELSE <<>>

\* C5's case: a match (a room in Playing) has just ended with one alive member.
C5_Witness ==
  /\ RanCheckWin
  /\ last.phase0 = PhasePlaying
  /\ rooms[last.room].phase = PhaseGameOver
  /\ Cardinality(AliveMembers(rooms[last.room], players)) = 1
  /\ Cardinality(rooms[last.room].players) >= 2

\* consumeToken returned a PendingJoin in the step just taken.
ConsumedNow ==
  \/ last.op = "playLookup"
  \/ last.op = "playReject" /\ last.res \in {"forbidden", "not_found"}

\* C6: a token is consumed successfully at most once, and a consume that
\* succeeds is of a registered, not yet consumed token at most 60 s old; after
\* any consume attempt the token is in the table no more.
C6_TokenSingleUse ==
  /\ \A t \in DOMAIN consumes : consumes[t] <= 1
  /\ ConsumedNow =>
       /\ last.arg \in DOMAIN issued
       /\ last.arg \in DOMAIN consumes
       /\ now - issued[last.arg].CreatedAt <= TokenTTL
  /\ (last.op \in {"playLookup", "playReject"} /\ last.res # "bad_request")
       => last.arg \notin DOMAIN pendingJoins

\* C6's case: a second consume of an already consumed token has just failed.
C6_Witness ==
  /\ last.op = "playReject"
  /\ last.res = "unauthorized"
  /\ last.arg \in DOMAIN consumes

\* C7: every connection that got past the handshake presented a token that
\* was registered for that player and for the room named in the request
\* (compared in upper case), consumed once, not expired, and the room was in
\* the registry when it was looked up; only such connections' players are in a
\* room or in the hub's player table (a rejected handshake adds none).
C7_AdmitOnlyValidated ==
  /\ \A p \in DOMAIN conn :
       LET t == conn[p].token
       IN  /\ t \in DOMAIN issued
           /\ issued[t].PlayerID = p
           /\ issued[t].RoomCode = ToUpper(conn[p].param)
           /\ rooms[conn[p].room].code = issued[t].RoomCode
           /\ t \in DOMAIN consumes
           /\ consumes[t] = 1
  /\ last.op = "playLookup" =>
       /\ now - issued[last.arg].CreatedAt <= TokenTTL
       /\ getRoom(issued[last.arg].RoomCode) = conn[last.pid].room
       /\ getRoom(issued[last.arg].RoomCode) # NoRoom
  /\ \A r \in RoomIds : \A p \in rooms[r].players :
       p \in DOMAIN conn /\ conn[p].room = r
  /\ \A p \in hubPlayers : p \in DOMAIN conn

\* C7's case: a handshake has just been rejected for a room mismatch while
\* another player is a member of a room.
C7_Witness ==
  /\ last.op = "playReject"
  /\ last.res = "forbidden"
  /\ \E r \in RoomIds : rooms[r].players # {}

\* C8: every room that has a member is in the registry.
C8_MembersOnlyInRegisteredRooms ==
  \A r \in RoomIds :
    rooms[r].players # {} => \E c \in DOMAIN hubRooms : hubRooms[c] = r

\* The players the step just taken sent something to.
Recipients == {q \in PlayerIds : last.out[q] # <<>>}

C10_PlayingNeedsTwo ==
  (last.op = "startGame" /\ last.phase0 # PhasePlaying)
    => Cardinality(rooms[last.room].players) >= minPlayers

\* C11: at most one countdown goroutine runs per room at a time, and no
\* countdown message is broadcast in a room that a startGame has already put
\* in Playing (a countdown value after the match's game_start).
C11_OneCountdownInOrder ==
  /\ \A r \in RoomIds : TaskCount({"countdown", "startGame"}, r) <= 1
  /\ last.op = "countdown" => last.phase0 # PhasePlaying

\* A handler is on its way to canStart / startCountdown for room r, or a
\* leave / disconnect cleanup for r has not finished yet.
StartPending(r) ==
  \E p \in DOMAIN conn :
    /\ conn[p].hroom = r
    /\ conn[p].pc \in {"ready_check", "ready_start", "lv_count", "dc_count"}

\* C12: a room in Lobby with at least 2 members, all ready, enters Countdown:
\* whenever a room is in that condition, some handler is about to start its
\* countdown (also right after the only not-ready member left or disconnected).
C12_ReadyRoomStarts ==
  \A r \in RoomIds :
    (rooms[r].phase = PhaseLobby /\ canStart(rooms[r], players)) => StartPending(r)

\* C14: a ready handler whose message said ready = false, sent by a member of
\* a room in Lobby, finds canStart false: the room stays in Lobby, the handler
\* queues no countdown message, and a handler that goes on to startCountdown
\* in its sender's room carried ready = true.
C14_UnreadyNeverStarts ==
  /\ (/\ last.op = "readyCheck"
      /\ last.arg = 0
      /\ last.phase0 = PhaseLobby
      /\ last.pid \in rooms[last.room].players)
       => /\ last.res = "wait"
          /\ rooms[last.room].phase = PhaseLobby
          /\ conn[last.pid].pc = "reading"
          /\ \A q \in PlayerIds : \A i \in 1..Len(last.out[q]) :
               last.out[q][i].type # "countdown"
  /\ (/\ last.op = "startCountdown"
      /\ last.pid \in rooms[last.room].players)
       => last.arg = 1

\* C14's case: a member has just un-readied in a Lobby room whose other
\* members (at least one) are all ready.
C14_Witness ==
  /\ last.op = "readyCheck"
  /\ last.arg = 0
  /\ last.phase0 = PhaseLobby
  /\ last.pid \in rooms[last.room].players
  /\ Cardinality(rooms[last.room].players) >= minPlayers
  /\ \A q \in rooms[last.room].players \ {last.pid} : players[q].Ready

\* The countdown goroutine sleeps a second at a time and then calls startGame,
\* the reset goroutine sleeps 2 s: the Go scheduler runs every goroutine that
\* is not blocked.
SpecTimers ==
  /\ Init
  /\ [][Next]_vars
  /\ WF_vars(\E t \in BagToSet(tasks) : CountdownTick(t))
  /\ WF_vars(\E t \in BagToSet(tasks), seed \in Seeds : StartGame(t, seed))
  /\ WF_vars(\E t \in BagToSet(tasks) : ResetTick(t))
  /\ WF_vars(\E t \in BagToSet(tasks) : ResetBroadcast(t))

\* C13: a room that has entered Countdown keeps a running countdown goroutine
\* whatever ready messages arrive afterwards, and then reaches Playing.
C13_CountdownNotCancelled ==
  /\ [](\A r \in RoomIds :
          rooms[r].phase = PhaseCountdown
            => TaskCount({"countdown", "startGame"}, r) >= 1)
  /\ \A r \in 1..MaxRooms :
       (r \in RoomIds /\ rooms[r].phase = PhaseCountdown)
         ~> (r \in RoomIds /\ rooms[r].phase = PhasePlaying)

\* C13's case: a member has just un-readied in a room that is counting down.
C13_Witness ==
  /\ last.op = "readyCheck"
  /\ last.arg = 0
  /\ last.phase0 = PhaseCountdown
  /\ last.pid \in rooms[last.room].players
  /\ rooms[last.room].phase = PhaseCountdown

\* C15: a room in GameOver has its reset goroutine pending and returns to
\* Lobby; when that goroutine puts the room back in Lobby every member has
\* ready = false and alive = true, and it then sends every current member one
\* lobby_update listing the current members.
C15_GameOverBackToLobby ==
  /\ [](last.op = "reset"
          => /\ rooms[last.room].phase = PhaseLobby
             /\ \A q \in rooms[last.room].players :
                  ~players[q].Ready /\ players[q].Alive)
  /\ [](last.op = "resetBroadcast"
          => \A q \in PlayerIds :
               last.out[q] =
                 IF q \in rooms[last.room].players
                 THEN <<[type |-> "lobby_update",
                         lobby |-> {[id |-> m, name |-> players[m].Name,
                                     ready |-> players[m].Ready] :
                                    m \in rooms[last.room].players}]>>
                 ELSE <<>>)
  /\ [](\A r \in RoomIds :
          rooms[r].phase = PhaseGameOver => TaskCount({"reset"}, r) >= 1)
  /\ \A r \in 1..MaxRooms :
       /\ (r \in RoomIds /\ rooms[r].phase = PhaseGameOver)
            ~> (r \in RoomIds /\ rooms[r].phase = PhaseLobby)
       /\ (TaskCount({"resetBroadcast"}, r) >= 1)
            ~> (last.op = "resetBroadcast" /\ last.room = r)

\* C15's case: the reset goroutine has just taken a room with at least 2
\* members from GameOver back to Lobby.
C15_Witness ==
  /\ last.op = "reset"
  /\ last.phase0 = PhaseGameOver
  /\ rooms[last.room].phase = PhaseLobby
  /\ Cardinality(rooms[last.room].players) >= minPlayers

\* C16: the game_start of a match is queued for the members while the room is
\* still in the Playing phase its startGame entered: no later transition, whose
\* match_over or lobby_update would then come first in a member's queue, has
\* taken place before it.
C16_GameStartBeforeLaterTransitions ==
  last.op = "gameStart" => last.phase0 = PhasePlaying

\* C17: at most one broadcastLoop goroutine runs per room at any time.
C17_OneBroadcastLoop ==
  \A r \in RoomIds : TaskCount({"broadcastLoop"}, r) <= 1

\* Connections of one room that come and go (leave_room frames, read
\* failures), with the writer goroutines.
\* handlePlay's cleanup is straight-line code after readPump returns, and
\* writePump blocks on nothing but sendCh, its ticker and a write with a
\* deadline: each goes on whenever it can.
NextCleanup ==
  \/ Len(rooms) < MaxRooms /\ HandleCreateRoom("", "ABCDE")
  \/ HandleJoinRoom("abcde", "ann")
  \/ \E token \in DOMAIN pendingJoins : PlayLookup("abcde", token)
  \/ \E p \in PlayerIds : PlayAdmit(p)
  \/ \E p \in PlayerIds : Disconnect(p)
  \/ \E p \in PlayerIds : RecvLeave(p)
  \/ \E p \in PlayerIds : CountStep(p)
  \/ \E p \in PlayerIds : ResetStep(p)
  \/ \E p \in PlayerIds : GcStep(p)
  \/ \E p \in PlayerIds : WriterExit(p)

SpecCleanup ==
  /\ Init
  /\ [][NextCleanup]_vars
  /\ \A p \in PlayerIds :
       /\ WF_vars(CountStep(p))
       /\ WF_vars(ResetStep(p))
       /\ WF_vars(GcStep(p))
       /\ WF_vars(WriterExit(p))

CleanupOps == {"disconnect", "count", "resetToLobby", "removeRoomIfEmpty", "writerExit"}

\* C18: after a connection's read fails its cleanup comes to an end, with the
\* player in no room and not in the hub's player table and the writer
\* goroutine returned; when the cleanup ends, a room it leaves without members
\* is out of the registry; and no step of that cleanup (the steps a leave_room
\* frame takes are not among them) changes another player's membership or
\* takes a room that has members out of the registry.
C18_DisconnectCleanup ==
  /\ \A p \in PlayerIds :
       (p \in DOMAIN conn /\ conn[p].pc = "dc_count")
         ~> /\ p \in DOMAIN conn
            /\ conn[p].pc = "done"
            /\ conn[p].writer = "exited"
            /\ p \notin hubPlayers
            /\ \A r \in RoomIds : p \notin rooms[r].players
  /\ []((/\ last.op \in {"count", "removeRoomIfEmpty"}
         /\ conn[last.pid].pc = "done"
         /\ rooms[conn[last.pid].room].players = {})
          => \A c \in DOMAIN hubRooms : hubRooms[c] # conn[last.pid].room)
  /\ [][(/\ last'.op \in CleanupOps
          /\ \/ last'.op \in {"disconnect", "writerExit"}
             \/ conn[last'.pid].pc \in {"dc_count", "dc_reset", "dc_gc"})
          => /\ \A r \in RoomIds : rooms'[r].players = rooms[r].players \ {last'.pid}
             /\ hubPlayers' \in {hubPlayers, hubPlayers \ {last'.pid}}
             /\ \A c \in DOMAIN hubRooms :
                  \/ c \in DOMAIN hubRooms' /\ hubRooms'[c] = hubRooms[c]
                  \/ rooms[hubRooms[c]].players = {}]_vars

\* C18's case: a disconnected member's cleanup has just ended while another
\* player is still a member of the room.
C18_Witness ==
  /\ last.op = "count"
  /\ conn[last.pid].pc = "done"
  /\ rooms[conn[last.pid].room].players # {}

\* ------------------------------------------- Player.send on its own
\* Player.send if it queued the message whatever the channel holds.
sendUnbounded(ch, closed, msg) == IF closed THEN ch ELSE Append(ch, msg)

\* Player.send: the channel's buffer after the call.  The select takes the
\* send case if the buffer has room and the default case if not; on a closed
\* channel the send panics and the deferred recover() ends the call.
send(ch, closed, msg) ==
  IF closed THEN ch
  ELSE IF Len(ch) < sendCap THEN Append(ch, msg)
  ELSE ch

\* Player.send: how the call ended.
sendOutcome(ch, closed) ==
  IF closed THEN "recovered"
  ELSE IF Len(ch) < sendCap THEN "queued"
  ELSE "dropped"

\* Some goroutine calls send on the Player; the message is numbered by the call.
SendStep ==
  /\ sendSeq < MaxSends
  /\ sendSeq' = sendSeq + 1
  /\ sendCh' = send(sendCh, sendClosed, sendSeq + 1)
  /\ last' = Ev("send", NoPlayer, NoRoom, PhaseLobby, sendSeq + 1,
                sendOutcome(sendCh, sendClosed), NoOut)
  /\ UNCHANGED <<hubRooms, hubPlayers, pendingJoins, nextID, now, rooms, players,
                 conn, tasks, issued, consumes, matchSeeds, events, sendClosed>>
  /\ UNCHANGED gameVars

\* writePump receives the message at the head of the channel.
WriterTake ==
  /\ sendCh # <<>>
  /\ sendCh' = Tail(sendCh)
  /\ last' = Ev("write", NoPlayer, NoRoom, PhaseLobby, Head(sendCh), "", NoOut)
  /\ UNCHANGED <<hubRooms, hubPlayers, pendingJoins, nextID, now, rooms, players,
                 conn, tasks, issued, consumes, matchSeeds, events, sendClosed,
                 sendSeq>>
  /\ UNCHANGED gameVars

\* handlePlay's cleanup: close(p.sendCh).
CloseSendCh ==
  /\ ~sendClosed
  /\ sendClosed' = TRUE
  /\ last' = Ev("close", NoPlayer, NoRoom, PhaseLobby, 0, "", NoOut)
  /\ UNCHANGED <<hubRooms, hubPlayers, pendingJoins, nextID, now, rooms, players,
                 conn, tasks, issued, consumes, matchSeeds, events, sendCh, sendSeq>>
  /\ UNCHANGED gameVars

NextSend == SendStep \/ WriterTake \/ CloseSendCh

SpecSend == Init /\ [][NextSend]_vars

\* C19: every call of send returns; the channel never holds more than 64
\* messages; a call on a full channel discards the new message and leaves the
\* buffered ones as they were, a call on a closed channel ends by recover()
\* with the buffer untouched, and any other call appends the message.
C19_SendNeverBlocks ==
  /\ [](Len(sendCh) <= sendCap)
  /\ [](last.op = "send" => last.res \in {"queued", "dropped", "recovered"})
  /\ [](sendSeq < MaxSends => ENABLED SendStep)
  /\ [][last'.op = "send"
          => IF sendClosed
             THEN last'.res = "recovered" /\ sendCh' = sendCh
             ELSE IF Len(sendCh) = sendCap
             THEN last'.res = "dropped" /\ sendCh' = sendCh
             ELSE last'.res = "queued" /\ sendCh' = Append(sendCh, last'.arg)]_vars

\* C19's case: a message has just been discarded on a full channel.
C19_Witness ==
  /\ last.op = "send"
  /\ last.res = "dropped"
  /\ Len(sendCh) = sendCap
  /\ ~sendClosed

\* ------------------------------------ readPump / handleMessage: frames
\* An inbound frame.  env: json.Unmarshal into the Envelope succeeds; pk: what
\* the "payload" member is: "ok" an object whose members have the JSON types
\* of the shape, "null" the JSON null, "absent" no such member, "badtype" a
\* member (or the payload itself) of another JSON type.
InFrame(env, type, pk, ready, target, power, snap) ==
  [env |-> env, type |-> type, pk |-> pk, ready |-> ready, target |-> target,
   power |-> power, snap |-> snap]

ZeroSnap == [Score |-> 0, Alive |-> FALSE]

Frames ==
  {InFrame(FALSE, "", "absent", FALSE, NoPlayer, 0, ZeroSnap),
   InFrame(TRUE, "set_name", "ok", FALSE, NoPlayer, 0, ZeroSnap),
   InFrame(TRUE, "ready", "ok", TRUE, NoPlayer, 0, ZeroSnap),
   InFrame(TRUE, "ready", "null", TRUE, NoPlayer, 0, ZeroSnap),
   InFrame(TRUE, "ready", "absent", TRUE, NoPlayer, 0, ZeroSnap),
   InFrame(TRUE, "ready", "badtype", TRUE, NoPlayer, 0, ZeroSnap),
   InFrame(TRUE, "set_target", "ok", FALSE, 1, 0, ZeroSnap),
   InFrame(TRUE, "set_target", "badtype", FALSE, 1, 0, ZeroSnap),
   InFrame(TRUE, "lines_cleared", "ok", FALSE, NoPlayer, 2, ZeroSnap),
   InFrame(TRUE, "lines_cleared", "badtype", FALSE, NoPlayer, 2, ZeroSnap),
   InFrame(TRUE, "board_snapshot", "ok", FALSE, NoPlayer, 0, [Score |-> 1, Alive |-> TRUE]),
   InFrame(TRUE, "board_snapshot", "badtype", FALSE, NoPlayer, 0, [Score |-> 1, Alive |-> TRUE]),
   InFrame(TRUE, "player_dead", "absent", FALSE, NoPlayer, 0, ZeroSnap),
   InFrame(TRUE, "leave_room", "badtype", FALSE, NoPlayer, 0, ZeroSnap)}

\* The types whose case in handleMessage decodes a payload.
PayloadTypes == {"ready", "board_snapshot", "lines_cleared", "set_target"}

\* extractPayload taking every payload for its shape's zero value.
extractPayloadLenient(f) == TRUE

\* extractPayload(raw, &payload) == nil: json.Unmarshal of a null leaves the
\* target at its zero value and returns nil; of nothing, or of a value of
\* another JSON type, it returns an error.
extractPayload(f) == f.pk \in {"ok", "null"}

\* The payload handleMessage goes on with: the decoded members, or the zero
\* value where the payload held none.
Decoded(f) ==
  IF f.pk = "ok" THEN f
  ELSE InFrame(f.env, f.type, f.pk, FALSE, NoPlayer, 0, ZeroSnap)

\* readPump's loop body for one frame: Unmarshal (an error: continue), then
\* handleMessage's switch.
RecvFrame(p, f) ==
  IF ~f.env THEN Reading(p) /\ Ignore(p, "frame") /\ Frame
  ELSE IF f.type = "leave_room" THEN RecvLeave(p)
  ELSE IF f.type = "player_dead" THEN RecvPlayerDead(p)
  ELSE IF f.type \in PayloadTypes /\ extractPayload(f)
  THEN CASE f.type = "ready" -> RecvReady(p, Decoded(f).ready)
         [] f.type = "board_snapshot" -> RecvBoardSnapshot(p, Decoded(f).snap)
         [] f.type = "lines_cleared" -> RecvLinesCleared(p, Decoded(f).power)
         [] f.type = "set_target" -> RecvSetTarget(p, Decoded(f).target)
  ELSE Reading(p) /\ Ignore(p, "frame") /\ Frame

\* One room's connections receiving frames of every kind, before and during
\* a match.
NextFrames ==
  \/ Len(rooms) < MaxRooms /\ HandleCreateRoom("", "ABCDE")
  \/ HandleJoinRoom("abcde", "ann")
  \/ \E token \in DOMAIN pendingJoins : PlayLookup("abcde", token)
  \/ \E p \in PlayerIds : PlayAdmit(p)
  \/ \E p \in PlayerIds, f \in Frames : RecvFrame(p, f)
  \/ \E p \in PlayerIds : ReadyCheck(p)
  \/ \E p \in PlayerIds : ReadyStart(p)
  \/ \E p \in PlayerIds : CountStep(p)
  \/ \E p \in PlayerIds : ResetStep(p)
  \/ \E p \in PlayerIds : GcStep(p)
  \/ \E t \in BagToSet(tasks) : CountdownTick(t)
  \/ \E t \in BagToSet(tasks) : StartGame(t, 1)
  \/ \E t \in BagToSet(tasks) : GameStartBroadcast(t)
  \/ \E t \in BagToSet(tasks) : BroadcastLoopStep(t, FALSE)
  \/ \E t \in BagToSet(tasks) : ResetTick(t)
  \/ \E t \in BagToSet(tasks) : ResetBroadcast(t)

SpecFrames == Init /\ [][NextFrames]_vars

\* A frame that is no valid envelope, or whose payload does not decode into
\* the shape its type selects, or whose type handleMessage does not know.
Malformed(f) ==
  \/ ~f.env
  \/ f.type \notin PayloadTypes \cup {"leave_room", "player_dead"}
  \/ f.type \in PayloadTypes /\ f.pk \in {"absent", "badtype"}

C21_JoinTokenOnlyForLobbyRoom ==
  [][\A param \in RoomParams :
       HandleJoinRoom(param, "ann")
         => LET open == \E c \in DOMAIN hubRooms :
                          /\ c = ToUpper(param)
                          /\ rooms[hubRooms[c]].phase = PhaseLobby
            IN  IF open
                THEN /\ last'.res = "ok"
                     /\ last'.arg \in DOMAIN pendingJoins' \ DOMAIN pendingJoins
                     /\ pendingJoins'[last'.arg].RoomCode = ToUpper(param)
                ELSE /\ last'.res \in {"not_found", "conflict"}
                     /\ last'.arg = NoToken
                     /\ pendingJoins' = pendingJoins
                     /\ issued' = issued]_vars

\* C21's case: a join-room request for a room in a match has been refused.
C21_Witness ==
  /\ last.op = "joinRoom"
  /\ last.res = "conflict"
  /\ last.room \in RoomIds
  /\ rooms[last.room].phase = PhasePlaying

\* C22: removeRoomIfEmpty takes the room registered under the code out of the
\* registry exactly when that room has no member, and then its stop channel
\* is closed, by one call of close over the room's life; for a code the
\* registry does not hold, or a room with members, it changes no registry and
\* no room.
C22_RemoveRoomIfEmpty ==
  /\ [](\A r \in RoomIds : rooms[r].closes = (IF rooms[r].stopped THEN 1 ELSE 0))
  /\ [][\A p \in PlayerIds :
          GcStep(p)
            => LET code == rooms[conn[p].hroom].code
               IN  IF code \in DOMAIN hubRooms /\ rooms[hubRooms[code]].players = {}
                   THEN /\ hubRooms' = WithoutKey(hubRooms, code)
                        /\ rooms'[hubRooms[code]].stopped
                        /\ rooms'[hubRooms[code]].closes = 1
                        /\ \A r \in RoomIds \ {hubRooms[code]} : rooms'[r] = rooms[r]
                   ELSE /\ hubRooms' = hubRooms
                        /\ rooms' = rooms]_vars

\* C22's case: removeRoomIfEmpty has just been called for a code the registry
\* no longer holds, the room having been removed by an earlier call.
C22_Witness ==
  /\ last.op = "removeRoomIfEmpty"
  /\ last.res = "kept"
  /\ last.room \in RoomIds
  /\ rooms[last.room].stopped
  /\ rooms[last.room].code \notin DOMAIN hubRooms

\* ------------------------------------------------ the room registry
\* The codes generateRoomCode's draws are taken from.
RoomCodes == {"ABCDE", "FGHJK"}

\* Rooms being created under either code, entered, left and removed.
NextRegistry ==
  \/ \E code \in RoomCodes : HandleCreateRoom("", code)
  \/ \E code \in RoomCodes : HandleJoinRoom(code, "ann")
  \/ \E code \in RoomCodes, token \in DOMAIN pendingJoins : PlayLookup(code, token)
  \/ \E p \in PlayerIds : PlayAdmit(p)
  \/ \E p \in PlayerIds : Disconnect(p)
  \/ \E p \in PlayerIds : RecvLeave(p)
  \/ \E p \in PlayerIds : CountStep(p)
  \/ \E p \in PlayerIds : ResetStep(p)
  \/ \E p \in PlayerIds : GcStep(p)

SpecRegistry == Init /\ [][NextRegistry]_vars

\* C23: createRoom registers a new Room object, in Lobby and without members,
\* under a code no registered room had, and displaces no registered room; at
\* all times the registry's key of a room is that room's code, so two
\* registered rooms never have the same code.
C23_CreateRoomFreshCode ==
  /\ [](\A c \in DOMAIN hubRooms :
          /\ rooms[hubRooms[c]].code = c
          /\ \A d \in DOMAIN hubRooms :
               rooms[hubRooms[d]].code = rooms[hubRooms[c]].code
                 => hubRooms[d] = hubRooms[c])
  /\ [][\A code \in RoomCodes :
          HandleCreateRoom("", code)
            => LET r == last'.room
               IN  /\ r \notin RoomIds
                   /\ rooms'[r].phase = PhaseLobby
                   /\ rooms'[r].players = {}
                   /\ \A c \in DOMAIN hubRooms : rooms[hubRooms[c]].code # rooms'[r].code
                   /\ hubRooms'[rooms'[r].code] = r
                   /\ \A c \in DOMAIN hubRooms :
                        c \in DOMAIN hubRooms' /\ hubRooms'[c] = hubRooms[c]]_vars

\* C23's case: a room has just been created while another room is registered
\* and a third, removed earlier, had the code the new one was given.
C23_Witness ==
  /\ last.op = "createRoom"
  /\ Cardinality(DOMAIN hubRooms) = 2
  /\ \E r \in RoomIds \ {last.room} :
       /\ rooms[r].code = rooms[last.room].code
       /\ rooms[r].stopped

\* The room objects whose member map holds player p.
RoomsOf(p) == {r \in RoomIds : p \in rooms[r].players}

\* C24: no player id is in the member map of two rooms; a player in a room's
\* member map has that room's code as its roomID, and a player in no member
\* map has the empty roomID.
C24_OneRoomPerPlayer ==
  \A p \in DOMAIN players :
    /\ Cardinality(RoomsOf(p)) <= 1
    /\ \A r \in RoomsOf(p) : players[p].roomID = rooms[r].code
    /\ RoomsOf(p) = {} => players[p].roomID = ""

\* C24's case: two rooms have a member each and a player who has just left
\* one of them is connected and in neither.
C24_Witness ==
  /\ last.op = "leave"
  /\ last.pid \in DOMAIN players
  /\ RoomsOf(last.pid) = {}
  /\ \E q1, q2 \in DOMAIN players :
       /\ RoomsOf(q1) # {}
       /\ RoomsOf(q2) # {}
       /\ RoomsOf(q1) # RoomsOf(q2)

\* ------------------------------------- internal/game: PieceGenerator
\* PieceI .. PieceL.
PieceTypes == 0..6

\* The clients that are sent the same game_start.
Clients == {1, 2}

\* States the process-global math/rand source of a client may be in when it
\* is drawn from; the clients do not share it.
GlobalDraws == {1, 2}

\* rand.New(rand.NewSource(seed)): a source private to the generator, whose
\* values are a function of the seed and of the number of draws made.  The
\* library's arithmetic is not part of the repository; a multiplicative
\* congruential generator stands for it.
rngSeed(seed) == (seed % 65536) + 1

rngStep(s) == (75 * s) % 65537

\* (*rand.Rand).Intn(n) drawn in state s (the state after it is rngStep(s)).
rngIntn(s, n) == rngStep(s) % n

NewPieceGenerator(seed) == [rng |-> rngSeed(seed), bag |-> <<>>]

\* refillBag's exchange if it only copied bag[j] to bag[i].
SwapOverwrite(bag, a, b) == [bag EXCEPT ![a] = bag[b]]

\* pg.bag[i], pg.bag[j] = pg.bag[j], pg.bag[i] (positions counted from 1).
Swap(bag, a, b) == [bag EXCEPT ![a] = bag[b], ![b] = bag[a]]

\* refillBag's loop, for i down to 1: j := rng.Intn(i + 1), exchange i and j.
RECURSIVE shuffle(_, _, _)
shuffle(bag, rng, i) ==
  IF i = 0 THEN [bag |-> bag, rng |-> rng]
  ELSE shuffle(Swap(bag, i + 1, rngIntn(rng, i + 1) + 1), rngStep(rng), i - 1)

\* refillBag drawing from the process-global source.
refillBagGlobal(pg, global) ==
  [pg EXCEPT !.bag = shuffle(<<0, 1, 2, 3, 4, 5, 6>>, global, 6).bag]

\* PieceGenerator.refillBag: the seven types, shuffled with pg.rng.
refillBag(pg, global) ==
  LET sh == shuffle(<<0, 1, 2, 3, 4, 5, 6>>, pg.rng, 6)
  IN  [pg EXCEPT !.bag = sh.bag, !.rng = sh.rng]

\* PieceGenerator.Next: the type returned and the generator after the call.
pgNext(pg, global) ==
  LET full == IF pg.bag = <<>> THEN refillBag(pg, global) ELSE pg
  IN  [piece |-> Head(full.bag), pg |-> [full EXCEPT !.bag = Tail(@)]]

\* PieceGenerator.Peek: the generator after the call.
pgPeek(pg, global) == IF pg.bag = <<>> THEN refillBag(pg, global) ELSE pg

\* A client constructs its generator from the seed of game_start.
NewGen(c, seed) ==
  /\ c \notin DOMAIN gens
  /\ gens' = gens @@ (c :> [seed |-> seed, pg |-> NewPieceGenerator(seed), out |-> <<>>])
  /\ last' = Ev("newGenerator", c, NoRoom, PhaseLobby, seed, "", NoOut)
  /\ UNCHANGED <<serverVars, chanVars, gameState, keys, holds, tuiVars, netVars>>

GenNext(c, global) ==
  /\ c \in DOMAIN gens
  /\ Len(gens[c].out) < MaxDraws
  /\ LET nx == pgNext(gens[c].pg, global)
     IN  /\ gens' = [gens EXCEPT ![c].pg = nx.pg, ![c].out = Append(@, nx.piece)]
         /\ last' = Ev("next", c, NoRoom, PhaseLobby, nx.piece, "", NoOut)
  /\ UNCHANGED <<serverVars, chanVars, gameState, keys, holds, tuiVars, netVars>>

GenPeek(c, global) ==
  /\ c \in DOMAIN gens
  /\ Len(gens[c].out) < MaxDraws
  /\ gens' = [gens EXCEPT ![c].pg = pgPeek(@, global)]
  /\ last' = Ev("peek", c, NoRoom, PhaseLobby, Head(gens'[c].pg.bag), "", NoOut)
  /\ UNCHANGED <<serverVars, chanVars, gameState, keys, holds, tuiVars, netVars>>

\* Two clients' generators, each constructed from a seed and drawn from at
\* its own pace.
NextPieces ==
  \/ \E c \in Clients, seed \in Seeds : NewGen(c, seed)
  \/ \E c \in Clients, global \in GlobalDraws : GenNext(c, global)
  \/ \E c \in Clients, global \in GlobalDraws : GenPeek(c, global)

SpecPieces == Init /\ [][NextPieces]_vars

\* C25: two generators constructed from the same seed have returned the same
\* piece type at every position both have reached.
C25_SameSeedSamePieces ==
  \A c \in DOMAIN gens : \A d \in DOMAIN gens :
    gens[c].seed = gens[d].seed
      => \A k \in 1..Len(gens[c].out) :
           k <= Len(gens[d].out) => gens[c].out[k] = gens[d].out[k]

\* C25's case: two generators of one seed have both gone past their first bag.
C25_Witness ==
  /\ DOMAIN gens = Clients
  /\ gens[1].seed = gens[2].seed
  /\ Len(gens[1].out) > 7
  /\ Len(gens[2].out) > 7

\* C26: the pieces numbered 7k+1 .. 7k+7 a generator has returned are the
\* seven types, once each; the bag is refilled only when it is empty, and a
\* call of Next on a bag that is not empty takes its head and draws nothing.
C26_SevenBag ==
  /\ [](\A c \in DOMAIN gens :
          /\ \A k \in 0..(MaxDraws \div 7) :
               7 * k + 7 <= Len(gens[c].out)
                 => {gens[c].out[7 * k + i] : i \in 1..7} = PieceTypes
          /\ Len(gens[c].pg.bag) + (Len(gens[c].out) % 7) \in {0, 7})
  /\ [][\A c \in Clients : \A global \in GlobalDraws :
          (GenNext(c, global) /\ gens[c].pg.bag # <<>>)
            => /\ gens'[c].pg.bag = Tail(gens[c].pg.bag)
               /\ gens'[c].pg.rng = gens[c].pg.rng
               /\ last'.arg = Head(gens[c].pg.bag)]_vars

\* C26's case: a generator has returned two whole bags, in different orders.
C26_Witness ==
  \E c \in DOMAIN gens :
    /\ Len(gens[c].out) >= 14
    /\ SubSeq(gens[c].out, 1, 7) # SubSeq(gens[c].out, 8, 14)

\* --------------------------------------- internal/game: pieces, board
\* pieceShapes, by type (PieceI first).
pieceShapes ==
  << << <<FALSE, FALSE, FALSE, FALSE>>, <<TRUE, TRUE, TRUE, TRUE>>,
        <<FALSE, FALSE, FALSE, FALSE>>, <<FALSE, FALSE, FALSE, FALSE>> >>,
     << <<TRUE, TRUE>>, <<TRUE, TRUE>> >>,
     << <<FALSE, TRUE, FALSE>>, <<TRUE, TRUE, TRUE>>, <<FALSE, FALSE, FALSE>> >>,
     << <<FALSE, TRUE, TRUE>>, <<TRUE, TRUE, FALSE>>, <<FALSE, FALSE, FALSE>> >>,
     << <<TRUE, TRUE, FALSE>>, <<FALSE, TRUE, TRUE>>, <<FALSE, FALSE, FALSE>> >>,
     << <<TRUE, FALSE, FALSE>>, <<TRUE, TRUE, TRUE>>, <<FALSE, FALSE, FALSE>> >>,
     << <<FALSE, FALSE, TRUE>>, <<TRUE, TRUE, TRUE>>, <<FALSE, FALSE, FALSE>> >> >>

pieceColors == <<6, 3, 5, 2, 1, 4, 3>>

\* NewPiece: the piece of type t at the spawn position.
NewPiece(t) ==
  [Type |-> t, Shape |-> pieceShapes[t + 1],
   X |-> BoardWidth \div 2 - Len(pieceShapes[t + 1][1]) \div 2, Y |-> 0,
   Color |-> pieceColors[t + 1]]

\* Piece.Rotate: rotated[j][n-1-i] = Shape[i][j].
PieceRotate(p) ==
  LET n == Len(p.Shape)
  IN  [p EXCEPT !.Shape = [r \in 1..n |-> [c \in 1..n |-> p.Shape[n + 1 - c][r]]]]

\* The board coordinates (x, y), counted from 0, of the piece's filled cells.
PieceCells(p) ==
  {<<p.X + x - 1, p.Y + y - 1>> :
     <<x, y>> \in {xy \in (1..Len(p.Shape[1])) \X (1..Len(p.Shape)) :
                     p.Shape[xy[2]][xy[1]]}}

\* A Cell is its Color, 0 when it is not Filled.
EmptyRow(width) == [x \in 1..width |-> 0]

NewBoard ==
  [Cells |-> [y \in 1..BoardHeight |-> EmptyRow(BoardWidth)],
   Width |-> BoardWidth, Height |-> BoardHeight]

\* IsValidPosition without the test of the board's filled cells.
IsValidPositionInBounds(b, p, offsetX, offsetY) ==
  \A c \in PieceCells(p) :
    /\ c[1] + offsetX >= 0 /\ c[1] + offsetX < b.Width
    /\ c[2] + offsetY < b.Height

IsValidPosition(b, p, offsetX, offsetY) ==
  \A c \in PieceCells(p) :
    LET newX == c[1] + offsetX
        newY == c[2] + offsetY
    IN  /\ newX >= 0 /\ newX < b.Width
        /\ newY < b.Height
        /\ ~(newY >= 0 /\ b.Cells[newY + 1][newX + 1] # 0)

\* Board.LockPiece.
BoardLockPiece(b, p) ==
  LET cells == PieceCells(p)
      rows == {c[2] : c \in cells}
  IN  [b EXCEPT !.Cells =
         [y \in 1..Len(b.Cells) |->
            IF y - 1 \notin rows \/ y - 1 >= b.Height THEN b.Cells[y]
            ELSE [x \in 1..Len(b.Cells[y]) |->
                    IF <<x - 1, y - 1>> \in cells /\ x - 1 < b.Width
                    THEN p.Color ELSE b.Cells[y][x]]]]

RowFull(b, row) == \A x \in 1..b.Width : row[x] # 0

RECURSIVE PadRows(_, _, _)
PadRows(cells, height, width) ==
  IF Len(cells) < height THEN PadRows(<<EmptyRow(width)>> \o cells, height, width)
  ELSE cells

\* Board.ClearLines without the loop that puts empty rows back on top.
ClearedCellsNoPad(b) ==
  SelectSeq(SubSeq(b.Cells, 1, b.Height), LAMBDA row : ~RowFull(b, row))

\* Board.ClearLines: the rows that are not full, in order, under as many empty
\* rows as it takes to have Height rows.
ClearedCells(b) ==
  PadRows(SelectSeq(SubSeq(b.Cells, 1, b.Height), LAMBDA row : ~RowFull(b, row)),
          b.Height, b.Width)

\* Board.ClearLines: the number it returns.
LinesClearedIn(b) == Cardinality({y \in 1..b.Height : RowFull(b, b.Cells[y])})

GarbageLine(width, holeX) ==
  [x \in 1..width |-> IF x - 1 = holeX THEN 0 ELSE GarbageColor]

\* Board.AddGarbageLines: count times, drop the top row and append a line.
RECURSIVE AddGarbageLines(_, _, _)
AddGarbageLines(b, count, holeX) ==
  IF count <= 0 THEN b
  ELSE AddGarbageLines(
         [b EXCEPT !.Cells = Append(Tail(b.Cells), GarbageLine(b.Width, holeX))],
         count - 1, holeX)

\* ------------------------------------------ internal/game: GameState
\* NewSeededGameState: current and next piece are the generator's first two.
NewSeededGameState(seed, global) ==
  LET first == pgNext(NewPieceGenerator(seed), global)
      second == pgNext(first.pg, global)
  IN  [Board |-> NewBoard, CurrentPiece |-> NewPiece(first.piece),
       NextPiece |-> NewPiece(second.piece), HoldPiece |-> <<>>, CanHold |-> TRUE,
       Score |-> 0, Level |-> 1, Lines |-> 0, GarbageQueue |-> 0,
       IsGameOver |-> FALSE, AttackPower |-> 0, PieceGen |-> second.pg]

CanMove(gs, dx, dy) == IsValidPosition(gs.Board, gs.CurrentPiece, dx, dy)

MoveLeft(gs) == IF CanMove(gs, -1, 0) THEN [gs EXCEPT !.CurrentPiece.X = @ - 1] ELSE gs

MoveRight(gs) == IF CanMove(gs, 1, 0) THEN [gs EXCEPT !.CurrentPiece.X = @ + 1] ELSE gs

MoveDown(gs) == IF CanMove(gs, 0, 1) THEN [gs EXCEPT !.CurrentPiece.Y = @ + 1] ELSE gs

\* GameState.Rotate if it tried the shift by +1 before the shift by -1.
RotatePlusFirst(gs) ==
  LET rot == [gs EXCEPT !.CurrentPiece = PieceRotate(@)]
  IN  IF CanMove(rot, 0, 0) THEN rot
      ELSE IF CanMove(rot, 1, 0) THEN [rot EXCEPT !.CurrentPiece.X = @ + 1]
      ELSE IF CanMove(rot, -1, 0) THEN [rot EXCEPT !.CurrentPiece.X = @ - 1]
      ELSE IF CanMove(rot, -2, 0) THEN [rot EXCEPT !.CurrentPiece.X = @ - 2]
      ELSE IF CanMove(rot, 2, 0) THEN [rot EXCEPT !.CurrentPiece.X = @ + 2]
      ELSE gs

\* GameState.Rotate: the rotated shape in place, else shifted by -1, +1, -2,
\* +2, else the piece as it was.
Rotate(gs) ==
  LET rot == [gs EXCEPT !.CurrentPiece = PieceRotate(@)]
  IN  IF CanMove(rot, 0, 0) THEN rot
      ELSE IF CanMove(rot, -1, 0) THEN [rot EXCEPT !.CurrentPiece.X = @ - 1]
      ELSE IF CanMove(rot, 1, 0) THEN [rot EXCEPT !.CurrentPiece.X = @ + 1]
      ELSE IF CanMove(rot, -2, 0) THEN [rot EXCEPT !.CurrentPiece.X = @ - 2]
      ELSE IF CanMove(rot, 2, 0) THEN [rot EXCEPT !.CurrentPiece.X = @ + 2]
      ELSE gs

\* GameState.Rotate: the value it returns, false only after all five tests.
RotateReturns(gs) ==
  LET rot == [gs EXCEPT !.CurrentPiece = PieceRotate(@)]
  IN  \E dx \in {0, -1, 1, -2, 2} : CanMove(rot, dx, 0)

\* calculateScore with the level left out.
calculateScoreFlat(lines, level) ==
  IF lines \in 1..4 THEN <<100, 300, 500, 800>>[lines] ELSE 0

\* calculateScore(lines) read with gs.Level = level.
calculateScore(lines, level) ==
  IF lines \in 1..4 THEN <<100, 300, 500, 800>>[lines] * level ELSE 0

calculateAttack(lines) == IF lines \in 1..4 THEN <<0, 1, 2, 4>>[lines] ELSE 0

\* GameState.LockPiece if it tested the new piece before it inserted the garbage.
LockPieceTestFirst(gs, holeX, global) ==
  LET locked == BoardLockPiece(gs.Board, gs.CurrentPiece)
      linesCleared == LinesClearedIn(locked)
      board == [locked EXCEPT !.Cells = ClearedCells(locked)]
      lines == gs.Lines + linesCleared
      nx == pgNext(gs.PieceGen, global)
      after == IF gs.GarbageQueue > 0
               THEN AddGarbageLines(board, gs.GarbageQueue, holeX) ELSE board
  IN  [gs EXCEPT !.Board = after,
                 !.Lines = lines,
                 !.Score = @ + calculateScore(linesCleared, gs.Level),
                 !.Level = lines \div 10 + 1,
                 !.AttackPower = IF linesCleared > 0 THEN calculateAttack(linesCleared)
                                 ELSE 0,
                 !.CurrentPiece = gs.NextPiece,
                 !.NextPiece = NewPiece(nx.piece),
                 !.PieceGen = nx.pg,
                 !.CanHold = TRUE,
                 !.GarbageQueue = 0,
                 !.IsGameOver = @ \/ ~IsValidPosition(board, gs.NextPiece, 0, 0)]

\* GameState.LockPiece.  holeX is rand.Intn(BoardWidth) of the process-global
\* source, global that source's state should the generator read it.
LockPiece(gs, holeX, global) ==
  LET locked == BoardLockPiece(gs.Board, gs.CurrentPiece)
      linesCleared == LinesClearedIn(locked)
      board == [locked EXCEPT !.Cells = ClearedCells(locked)]
      lines == gs.Lines + linesCleared
      nx == pgNext(gs.PieceGen, global)
      after == IF gs.GarbageQueue > 0
               THEN AddGarbageLines(board, gs.GarbageQueue, holeX) ELSE board
  IN  [gs EXCEPT !.Board = after,
                 !.Lines = lines,
                 !.Score = @ + calculateScore(linesCleared, gs.Level),
                 !.Level = lines \div 10 + 1,
                 !.AttackPower = IF linesCleared > 0 THEN calculateAttack(linesCleared)
                                 ELSE 0,
                 !.CurrentPiece = gs.NextPiece,
                 !.NextPiece = NewPiece(nx.piece),
                 !.PieceGen = nx.pg,
                 !.CanHold = TRUE,
                 !.GarbageQueue = 0,
                 !.IsGameOver = @ \/ ~IsValidPosition(after, gs.NextPiece, 0, 0)]

\* The rows MoveDown succeeds for, one after another, from d on.
RECURSIVE DropRows(_, _)
DropRows(gs, d) == IF CanMove(gs, 0, d + 1) THEN DropRows(gs, d + 1) ELSE d

\* GameState.HardDrop if it added 1 point a row.
HardDropOnePoint(gs, holeX, global) ==
  LET d == DropRows(gs, 0)
  IN  LockPiece([gs EXCEPT !.CurrentPiece.Y = @ + d, !.Score = @ + d],
                holeX, global)

\* GameState.HardDrop: 2 points a row, then LockPiece.
HardDrop(gs, holeX, global) ==
  LET d == DropRows(gs, 0)
  IN  LockPiece([gs EXCEPT !.CurrentPiece.Y = @ + d, !.Score = @ + 2 * d],
                holeX, global)

\* Hold's test if it let every call through.
holdAllowedAlways(gs) == TRUE

\* Hold's test: if !gs.CanHold { return false }.
holdAllowed(gs) == gs.CanHold

\* GameState.Hold.
Hold(gs, global) ==
  IF ~holdAllowed(gs) THEN gs
  ELSE IF gs.HoldPiece = <<>>
  THEN LET nx == pgNext(gs.PieceGen, global)
       IN  [gs EXCEPT !.CanHold = FALSE,
                      !.HoldPiece = <<NewPiece(gs.CurrentPiece.Type)>>,
                      !.CurrentPiece = gs.NextPiece,
                      !.NextPiece = NewPiece(nx.piece),
                      !.PieceGen = nx.pg]
  ELSE [gs EXCEPT !.CanHold = FALSE,
                  !.CurrentPiece = NewPiece(gs.HoldPiece[1].Type),
                  !.HoldPiece = <<NewPiece(gs.CurrentPiece.Type)>>]

\* ReceiveGarbage if it put the lines on the board at once.
ReceiveGarbageNow(gs, lines) == [gs EXCEPT !.Board = AddGarbageLines(@, lines, 0)]

\* GameState.ReceiveGarbage.
ReceiveGarbage(gs, lines) == [gs EXCEPT !.GarbageQueue = @ + lines]

\* GameState.Tick.
Tick(gs, holeX, global) ==
  IF gs.IsGameOver THEN gs
  ELSE IF CanMove(gs, 0, 1) THEN MoveDown(gs)
  ELSE LockPiece(gs, holeX, global)

\* ------------------------------------- internal/tui: a client in a match
\* Values rand.Intn(BoardWidth) returns for the hole of a garbage insertion.
HoleXs == {0, 5, 9}

\* Line counts of the receive_garbage messages delivered.
GarbageLines == {1, 4}

\* handlePlayingKeys and handleGameTick go on: there is a game and it is not over.
GameOn == gameState # <<>> /\ ~gameState[1].IsGameOver

\* One more key press, tick or message is handled.
Handled ==
  /\ keys < MaxKeys
  /\ keys' = keys + 1
  /\ holds' = IF last'.res = "lock" \/ last'.op = "game_start" THEN 0
              ELSE IF last'.op = "hold" /\ last'.res = "true" THEN holds + 1
              ELSE holds
  /\ UNCHANGED <<serverVars, chanVars, gens, tuiVars, netVars>>

GEv(op, arg, res) == Ev(op, NoPlayer, NoRoom, PhaseLobby, arg, res, NoOut)

Moved(gs, after) == IF after = gs THEN "false" ELSE "true"

\* handleServerMsg, MsgGameStart: a new seeded game replaces whatever there was.
GameStart(seed, global) ==
  /\ gameState' = <<NewSeededGameState(seed, global)>>
  /\ last' = GEv("game_start", seed, "")
  /\ Handled

KeyLeft ==
  /\ GameOn
  /\ gameState' = <<MoveLeft(gameState[1])>>
  /\ last' = GEv("left", 0, Moved(gameState[1], gameState'[1]))
  /\ Handled

KeyRight ==
  /\ GameOn
  /\ gameState' = <<MoveRight(gameState[1])>>
  /\ last' = GEv("right", 0, Moved(gameState[1], gameState'[1]))
  /\ Handled

KeyDown ==
  /\ GameOn
  /\ gameState' = <<MoveDown(gameState[1])>>
  /\ last' = GEv("down", 0, Moved(gameState[1], gameState'[1]))
  /\ Handled

KeyRotate ==
  /\ GameOn
  /\ gameState' = <<Rotate(gameState[1])>>
  /\ last' = GEv("rotate", 0, IF RotateReturns(gameState[1]) THEN "true" ELSE "false")
  /\ Handled

KeyHardDrop(holeX, global) ==
  /\ GameOn
  /\ gameState' = <<HardDrop(gameState[1], holeX, global)>>
  /\ last' = GEv("hard_drop", DropRows(gameState[1], 0), "lock")
  /\ Handled

KeyHold(global) ==
  /\ GameOn
  /\ gameState' = <<Hold(gameState[1], global)>>
  /\ last' = GEv("hold",
                  IF holdAllowed(gameState[1]) /\ gameState[1].HoldPiece # <<>>
                  THEN 1 ELSE 0,                       \* 1: the else branch ran
                  IF holdAllowed(gameState[1]) THEN "true" ELSE "false")
  /\ Handled

\* handleGameTick: nothing without a game, nothing but a return for a game
\* that is over, else GameState.Tick.
GameTick(holeX, global) ==
  /\ gameState # <<>>
  /\ gameState' = IF gameState[1].IsGameOver THEN gameState
                  ELSE <<Tick(gameState[1], holeX, global)>>
  /\ last' = GEv("tick", 0, IF gameState[1].IsGameOver THEN "over"
                            ELSE IF CanMove(gameState[1], 0, 1) THEN "true"
                            ELSE "lock")
  /\ Handled

\* handleServerMsg, MsgReceiveGarbage.
RecvGarbage(lines) ==
  /\ gameState' = IF GameOn THEN <<ReceiveGarbage(gameState[1], lines)>> ELSE gameState
  /\ last' = GEv("receive_garbage", lines, IF GameOn THEN "buffered" ELSE "ignored")
  /\ Handled

\* The process-global source is in one state throughout: the generator does
\* not read it (SpecPieces varies it).
NextGame ==
  \/ \E seed \in Seeds : GameStart(seed, 1)
  \/ KeyLeft
  \/ KeyRight
  \/ KeyDown
  \/ KeyRotate
  \/ \E holeX \in HoleXs : KeyHardDrop(holeX, 1)
  \/ KeyHold(1)
  \/ \E holeX \in HoleXs : GameTick(holeX, 1)
  \/ \E lines \in GarbageLines : RecvGarbage(lines)

\* A game some way into a match: the generator draws pieces drawn, the board
\* rows garbage lines with their hole at holeX, lines lines cleared so far.
RECURSIVE Drawn(_, _)
Drawn(gs, draws) ==
  IF draws = 0 THEN gs
  ELSE LET nx == pgNext(gs.PieceGen, 1)
       IN  Drawn([gs EXCEPT !.CurrentPiece = gs.NextPiece,
                            !.NextPiece = NewPiece(nx.piece),
                            !.PieceGen = nx.pg], draws - 1)

MidGame(seed, draws, rows, holeX, lines) ==
  [Drawn(NewSeededGameState(seed, 1), draws) EXCEPT
     !.Board = AddGarbageLines(NewBoard, rows, holeX),
     !.Lines = lines,
     !.Level = lines \div 10 + 1,
     !.Score = 100 * lines]

\* Garbage lines on the board and lines cleared so far of the games looked at.
MidRows == 0..4

MidLines == {8, 19}

MidGames == {MidGame(2, 2, rows, 5, lines) : rows \in MidRows, lines \in MidLines}

\* A client before game_start, or some way into a match.
InitGame ==
  /\ InitServer
  /\ gens = <<>>
  /\ keys = 0
  /\ holds = 0
  /\ InitTui
  /\ InitNet
  /\ gameState \in {<<>>} \cup {<<g>> : g \in MidGames}

SpecGame == InitGame /\ [][NextGame]_vars

\* The step just taken called GameState.LockPiece (from the state before it).
IsLock ==
  \/ last'.op = "hard_drop"
  \/ last'.op = "tick" /\ ~gameState[1].IsGameOver /\ ~CanMove(gameState[1], 0, 1)

\* The bottom n rows of the board are garbage lines with one common hole.
GarbageAtBottom(b, n) ==
  \E holeX \in 0..(BoardWidth - 1) :
    \A i \in 1..n : b.Cells[Len(b.Cells) - n + i] = GarbageLine(BoardWidth, holeX)

\* C27: a receive_garbage message only adds its line count to the queue,
\* leaving board and current piece as they are; a step that locks puts the
\* whole queue on the board as garbage lines and leaves the queue at 0; any
\* other key press or tick leaves the board and the queue as they are.
C27_GarbageOnlyAtLock ==
  /\ [][\A lines \in GarbageLines :
          (RecvGarbage(lines) /\ GameOn)
            => /\ gameState'[1].GarbageQueue = gameState[1].GarbageQueue + lines
               /\ gameState'[1].Board = gameState[1].Board
               /\ gameState'[1].CurrentPiece = gameState[1].CurrentPiece]_vars
  /\ [][(gameState # <<>> /\ gameState' # <<>>
         /\ last'.op \notin {"game_start", "receive_garbage"})
          => IF IsLock
             THEN /\ gameState'[1].GarbageQueue = 0
                  /\ GarbageAtBottom(gameState'[1].Board, gameState[1].GarbageQueue)
             ELSE /\ gameState'[1].Board = gameState[1].Board
                  /\ gameState'[1].GarbageQueue = gameState[1].GarbageQueue]_vars

\* C27's case: in a new game two garbage messages, of 4 lines and of 1, were
\* buffered and the lock just made has put all 5 lines on the board.
C27_Witness ==
  /\ last.res = "lock"
  /\ gameState # <<>>
  /\ gameState[1].Lines = 0
  /\ gameState[1].GarbageQueue = 0
  /\ \A y \in (BoardHeight - 4)..BoardHeight :
       \E x \in 1..BoardWidth : gameState[1].Board.Cells[y][x] = GarbageColor
  /\ \A x \in 1..BoardWidth : gameState[1].Board.Cells[BoardHeight - 5][x] # GarbageColor

\* The cells of a row that are filled.
FilledIn(row) == {x \in DOMAIN row : row[x] # 0}

\* C28: the board always has BoardHeight rows of BoardWidth cells, and the
\* rows a lock inserts as garbage each have all cells filled but one.
C28_BoardShape ==
  /\ [](gameState # <<>>
          => LET b == gameState[1].Board
             IN  /\ b.Width = BoardWidth /\ b.Height = BoardHeight
                 /\ Len(b.Cells) = BoardHeight
                 /\ \A y \in 1..Len(b.Cells) : Len(b.Cells[y]) = BoardWidth)
  /\ [][(gameState # <<>> /\ gameState' # <<>> /\ IsLock)
          => \A i \in 1..gameState[1].GarbageQueue :
               LET row == gameState'[1].Board.Cells[BoardHeight + 1 - i]
               IN  /\ Cardinality(FilledIn(row)) = BoardWidth - 1
                   /\ Cardinality(DOMAIN row \ FilledIn(row)) = 1]_vars

\* C28's case: the lock just made cleared the four garbage lines the board
\* had and then inserted the garbage buffered meanwhile.
C28_Witness ==
  /\ last.res = "lock"
  /\ gameState # <<>>
  /\ gameState[1].Lines = 12
  /\ \E x \in 1..BoardWidth : gameState[1].Board.Cells[BoardHeight][x] = GarbageColor
  /\ \A x \in 1..BoardWidth : gameState[1].Board.Cells[BoardHeight - 4][x] = 0

\* The rows of the board that are full once the current piece, moved down by
\* d rows, is locked into it.
FullRowsWith(gs, d) ==
  LET cells == PieceCells([gs.CurrentPiece EXCEPT !.Y = @ + d])
  IN  {y \in 1..BoardHeight :
         \A x \in 1..BoardWidth :
           gs.Board.Cells[y][x] # 0 \/ <<x - 1, y - 1>> \in cells}

\* C29: a lock that clears n lines at level L adds 0, 100, 300, 500 or 800
\* times L to the score (after the 2 points a row of a hard drop), adds n to
\* the lines, sets the level to lines / 10 + 1 and the attack power to 0, 0,
\* 1, 2 or 4.
C29_LockScoring ==
  [][(gameState # <<>> /\ gameState' # <<>> /\ IsLock)
       => LET g == gameState[1]
              h == gameState'[1]
              d == IF last'.op = "hard_drop" THEN DropRows(g, 0) ELSE 0
              n == Cardinality(FullRowsWith(g, d))
          IN  /\ n \in 0..4
              /\ h.Score = g.Score + 2 * d + <<0, 100, 300, 500, 800>>[n + 1] * g.Level
              /\ h.Lines = g.Lines + n
              /\ h.Level = h.Lines \div 10 + 1
              /\ h.AttackPower = <<0, 0, 1, 2, 4>>[n + 1]]_vars

\* C29's case: a lock at level 2 has just cleared 4 lines, taking the lines
\* from 19 to 23 and the level to 3.
C29_Witness ==
  /\ last.res = "lock"
  /\ gameState # <<>>
  /\ gameState[1].Lines = 23
  /\ gameState[1].Level = 3
  /\ gameState[1].AttackPower = 4
  /\ gameState[1].Score >= 1900 + 1600

\* C30: between two locks (or the start of the game and the first lock) Hold
\* returns true at most once; a call that returns false changes nothing; a
\* call that returns true puts the current piece's type in the hold slot and
\* makes the held type, or the next piece when nothing was held, the current
\* piece at the spawn position; every lock allows Hold again and nothing else
\* does.
C30_HoldOncePerLock ==
  /\ [](holds <= 1)
  /\ [](gameState # <<>> => (gameState[1].CanHold <=> holds = 0))
  /\ [][(gameState # <<>> /\ gameState' # <<>> /\ last'.op # "game_start")
          => LET g == gameState[1]
                 h == gameState'[1]
             IN  IF last'.op = "hold"
                 THEN IF g.CanHold
                      THEN /\ last'.res = "true"
                           /\ ~h.CanHold
                           /\ h.HoldPiece = <<NewPiece(g.CurrentPiece.Type)>>
                           /\ h.CurrentPiece =
                                NewPiece(IF g.HoldPiece = <<>> THEN g.NextPiece.Type
                                         ELSE g.HoldPiece[1].Type)
                      ELSE last'.res = "false" /\ h = g
                 ELSE IF IsLock THEN h.CanHold
                 ELSE h.CanHold = g.CanHold /\ h.HoldPiece = g.HoldPiece]_vars

\* C30's case: the Hold just made returned true and exchanged the current
\* piece with the one an earlier Hold had put in the slot, a lock having been
\* made in between.
C30_Witness ==
  /\ last.op = "hold"
  /\ last.res = "true"
  /\ last.arg = 1
  /\ holds = 1
  /\ gameState # <<>>
  /\ gameState[1].HoldPiece # <<>>
  /\ gameState[1].HoldPiece[1].Type # gameState[1].CurrentPiece.Type
  /\ \E x \in 1..BoardWidth : \E y \in 1..BoardHeight :
       gameState[1].Board.Cells[y][x] \notin {0, GarbageColor}

\* ---------------------------------------------------------------- C31
\* The holes of the rows at the bottom of the board.
HolesOfBottom(b, n) ==
  {{x \in 1..BoardWidth : b.Cells[Len(b.Cells) - n + i][x] = 0} : i \in 1..n}

\* C31: when a lock inserts several garbage rows, the empty column of each
\* row is chosen independently of the other rows: whenever a hard drop is
\* about to insert two or more queued rows, some outcome of the hard drop
\* leaves two inserted rows with their gap in different columns.
C31_HolesChosenIndependently ==
  (GameOn /\ keys < MaxKeys /\ gameState[1].GarbageQueue >= 2)
    => \E holeX \in HoleXs :
         Cardinality(HolesOfBottom(HardDrop(gameState[1], holeX, 1).Board,
                                   gameState[1].GarbageQueue)) > 1

\* ------------------------------------------------- games with a stack
\* n gravity steps, |dx| steps to the left (dx < 0) or right, r rotations.
RECURSIVE Sunk(_, _)
Sunk(gs, n) == IF n = 0 THEN gs ELSE Sunk(MoveDown(gs), n - 1)

RECURSIVE Shifted(_, _)
Shifted(gs, dx) ==
  IF dx = 0 THEN gs
  ELSE IF dx < 0 THEN Shifted(MoveLeft(gs), dx + 1)
  ELSE Shifted(MoveRight(gs), dx - 1)

RECURSIVE Turned(_, _)
Turned(gs, r) == IF r = 0 THEN gs ELSE Turned(Rotate(gs), r - 1)

\* The match of seed 2 after hold and a hard drop along the right wall: an I
\* piece is current.
GameWithI == HardDrop(Shifted(Hold(NewSeededGameState(2, 1), 1), 3), 0, 1)

\* ... after the I piece is turned upright and dropped as well: a column one
\* cell wide stands on the floor, a J piece is current.
GameWithColumn == HardDrop(Turned(GameWithI, 1), 0, 1)

\* ... after lines lines of garbage came in before the I piece was dropped flat.
GameWithGarbage(lines) == HardDrop(ReceiveGarbage(GameWithI, lines), 5, 1)

\* ... after the I piece was dropped upright along the left wall instead: the
\* garbage has a well one cell wide, a J piece is current.
GameWithWell(lines) ==
  HardDrop(Shifted(Turned(ReceiveGarbage(GameWithI, lines), 1), -5), 5, 1)

\* The match of seed 2 after hold, two moves to the right, 18 lines of garbage
\* received and a hard drop: the Z piece lies in rows 0 and 1 on top of the
\* garbage, its left end over an empty cell, an I piece is current.
GameAtTop ==
  HardDrop(ReceiveGarbage(Shifted(Hold(NewSeededGameState(2, 1), 1), 2), 18), 5, 1)

StackSinks == {12, 13, 14}

StackShifts == {-6, -5, -1, 0, 1, 5, 6}

StackTurns == 0..3

StackGarbage == {14, 15, 16, 17}

StackGames ==
  {Shifted(Sunk(GameWithColumn, n), dx) : n \in StackSinks, dx \in {-1, 0, 1}}
    \cup {Shifted(Turned(GameWithI, r), dx) : r \in StackTurns, dx \in StackShifts}
    \cup {GameWithGarbage(lines) : lines \in StackGarbage}
    \cup {Sunk(Turned(GameWithWell(lines), 1), 5) : lines \in StackGarbage}
    \cup {GameAtTop}

\* A client whose game has reached one of StackGames, two inputs before the
\* last one looked at.
InitStack ==
  /\ InitServer
  /\ gens = <<>>
  /\ keys = MaxKeys - 2
  /\ holds = 0
  /\ InitTui
  /\ InitNet
  /\ gameState \in {<<g>> : g \in StackGames}

SpecStack == InitStack /\ [][NextGame]_vars

\* ---------------------------------------------------------------- C32
RotateOffsets == <<0, -1, 1, -2, 2>>

\* C32: Rotate turns the shape and tries the horizontal offsets 0, -1, +1, -2,
\* +2 in that order; it commits the first offset at which the turned piece is
\* valid and returns true; if none is valid the game state is as before (shape
\* and position) and it returns false.  Nothing but the current piece changes.
C32_RotateWallKick ==
  [][last'.op = "rotate" =>
       LET gs == gameState[1]
           rot == PieceRotate(gs.CurrentPiece)
           ok == {i \in 1..5 : IsValidPosition(gs.Board, rot, RotateOffsets[i], 0)}
       IN  IF ok # {}
           THEN LET k == CHOOSE i \in ok : \A j \in ok : i <= j
                IN  /\ gameState'[1] =
                         [gs EXCEPT !.CurrentPiece =
                                      [rot EXCEPT !.X = @ + RotateOffsets[k]]]
                    /\ last'.res = "true"
           ELSE gameState'[1] = gs /\ last'.res = "false"]_vars

\* A rotation was committed at offset -1 where offset 0 was not valid and
\* offset +1 was: the piece is blocked one cell to its right, free two cells
\* to its right.
C32_Witness ==
  /\ last.op = "rotate" /\ last.res = "true"
  /\ ~CanMove(gameState[1], 1, 0)
  /\ CanMove(gameState[1], 2, 0)

\* ---------------------------------------------------------------- C33
MoveOps == {"left", "right", "down"}

MoveDX(op) == IF op = "left" THEN -1 ELSE IF op = "right" THEN 1 ELSE 0

MoveDY(op) == IF op = "down" THEN 1 ELSE 0

\* Every filled cell of piece p is in columns 0..9, in rows 0..19, and on an
\* empty cell of board b.
OnFreeCells(b, p) ==
  \A c \in PieceCells(p) :
    /\ c[1] \in 0..(BoardWidth - 1)
    /\ c[2] \in 0..(BoardHeight - 1)
    /\ b.Cells[c[2] + 1][c[1] + 1] = 0

\* C33: MoveLeft, MoveRight and MoveDown return true only if every filled cell
\* of the piece, one cell further, is inside columns 0..9, above the bottom
\* bound and on an empty cell, and then the piece is shifted by exactly that
\* one cell and nothing else changes; when they return false the piece and the
\* board (the whole game state) are unchanged.
C33_MoveValidated ==
  [][last'.op \in MoveOps =>
       LET gs == gameState[1]
           moved == [gs.CurrentPiece EXCEPT !.X = @ + MoveDX(last'.op),
                                            !.Y = @ + MoveDY(last'.op)]
       IN  /\ last'.res \in {"true", "false"}
           /\ last'.res = "true" =>
                /\ OnFreeCells(gs.Board, moved)
                /\ gameState'[1] = [gs EXCEPT !.CurrentPiece = moved]
           /\ last'.res = "false" => gameState'[1] = gs]_vars

\* A move to the left was refused by a filled cell, not by the wall: no cell
\* of the piece is in column 0.
C33_Witness ==
  /\ last.op = "left" /\ last.res = "false"
  /\ \A c \in PieceCells(gameState[1].CurrentPiece) : c[1] >= 1

\* ---------------------------------------------------------------- C34
\* The rows below its own at which the current piece of gs is in a valid
\* position, its column unchanged.
ValidDrops(gs) == {d \in 0..BoardHeight : CanMove(gs, 0, d)}

\* The lowest of them.
LowestValid(gs) ==
  IF ValidDrops(gs) = {} THEN 0
  ELSE CHOOSE d \in ValidDrops(gs) : \A e \in ValidDrops(gs) : e <= d

\* The rows the piece descends through valid positions before one is not.
Landing(gs) == CHOOSE d \in 0..BoardHeight :
                 /\ \A e \in 1..d : CanMove(gs, 0, e)
                 /\ ~CanMove(gs, 0, d + 1)

\* The game is what one LockPiece makes of gs with its piece d rows lower and
\* 2 points a row added.
LockedOnceAt(gs, d, after) ==
  \E holeX \in HoleXs :
    after = LockPiece([gs EXCEPT !.CurrentPiece.Y = @ + d, !.Score = @ + 2 * d],
                      holeX, 1)

\* Tick: one gravity step if the piece can move down, one lock otherwise,
\* nothing for a game that is over.
TickAsClaimed ==
  last'.op = "tick" =>
    LET gs == gameState[1]
    IN  IF gs.IsGameOver THEN gameState'[1] = gs /\ Tick(gs, 0, 1) = gs
        ELSE IF CanMove(gs, 0, 1)
        THEN gameState'[1] = [gs EXCEPT !.CurrentPiece.Y = @ + 1]
        ELSE LockedOnceAt(gs, 0, gameState'[1])

\* C34 as stated: HardDrop puts the piece at the lowest valid position of its
\* column, adds 2 points for every row down to it, and locks once; Tick as
\* above.
C34_HardDropToLowestValid ==
  [][/\ last'.op = "hard_drop" =>
          LockedOnceAt(gameState[1], LowestValid(gameState[1]), gameState'[1])
     /\ TickAsClaimed]_vars

\* C34, amended: HardDrop moves the piece down one row at a time while the
\* next row is a valid position, so it stops at the first position it cannot
\* leave downwards (on top of an overhang even when a valid position lies
\* below it), adds 2 points for every row descended, and locks once; Tick as
\* above.
C34_HardDropLands ==
  [][/\ last'.op = "hard_drop" =>
          LockedOnceAt(gameState[1], Landing(gameState[1]), gameState'[1])
     /\ TickAsClaimed]_vars

\* A hard drop descended at least one row and left the board with a filled
\* cell over an empty one.
C34_Witness ==
  /\ last.op = "hard_drop" /\ last.arg > 0
  /\ \E y \in 1..(BoardHeight - 1), x \in 1..BoardWidth :
       /\ gameState[1].Board.Cells[y][x] \notin {0, GarbageColor}
       /\ gameState[1].Board.Cells[y + 1][x] = 0

\* ---------------------------------------------------------------- C35
\* Piece p overlaps a filled cell of board b.
Overlaps(b, p) ==
  \E c \in PieceCells(p) :
    /\ c[1] \in 0..(BoardWidth - 1) /\ c[2] \in 0..(BoardHeight - 1)
    /\ b.Cells[c[2] + 1][c[1] + 1] # 0

\* C35: at the end of every lock the new current piece is the former next
\* piece at its start position, and the game is over exactly when that piece
\* overlaps a filled cell of the board as it is after line clearing and
\* garbage insertion; a game that is over stays over (and unchanged) until a
\* game_start replaces the game state.
C35_GameOverAtSpawn ==
  [][/\ (gameState # <<>> /\ IsLock) =>
          /\ gameState'[1].CurrentPiece = NewPiece(gameState[1].NextPiece.Type)
          /\ gameState'[1].IsGameOver
               <=> Overlaps(gameState'[1].Board, gameState'[1].CurrentPiece)
     /\ (gameState # <<>> /\ gameState[1].IsGameOver /\ last'.op # "game_start") =>
          /\ gameState' # <<>> /\ gameState'[1].IsGameOver
          /\ gameState' = gameState]_vars

\* A lock that inserted garbage ended the game: the new piece overlaps a
\* filled cell that the garbage pushed up (its row was empty before the lock's
\* insertion, so a cell below the piece's rows is not garbage).
C35_Witness ==
  /\ last.res = "lock"
  /\ gameState[1].IsGameOver
  /\ Overlaps(gameState[1].Board, gameState[1].CurrentPiece)
  /\ gameState[1].Board.Cells[BoardHeight][1] = GarbageColor
  /\ gameState[1].GarbageQueue = 0

\* ---------------------------------------------------------------- C36
\* C36: a player is added to a room's members only while the room is in
\* Lobby: every step in which handlePlay admits a player (whose token
\* handleJoinRoom issued for a room in Lobby, C21) finds the room in Lobby.
C36_AdmitOnlyInLobby ==
  last.op = "admit" => last.phase0 = PhaseLobby

\* ---------------------------------------------------------------- C37
\* The reset goroutines of room r among the goroutines tk.
Resets(tk, r) ==
  BagCardinality([t \in {u \in BagToSet(tk) : u.kind = "reset" /\ u.room = r}
                    |-> tk[t]])

\* C37: a player_dead report, a disconnect or a leave handled for a room that
\* is already in GameOver sends no match_over to anybody and starts no reset
\* goroutine, so that a match has one match_over per member and one reset.
C37_OneMatchOverOneReset ==
  [][(/\ last'.op \in {"playerDead", "disconnect", "leave"}
      /\ last'.room # NoRoom
      /\ last'.phase0 = PhaseGameOver)
       => /\ \A q \in PlayerIds : \A i \in DOMAIN last'.out[q] :
               last'.out[q][i].type # "match_over"
          /\ Resets(tasks', last'.room) <= Resets(tasks, last'.room)]_vars

\* ---------------------------------------------------------------- C38
\* C38: in every reachable game state in which the game is not over, the
\* current piece is in a valid position (inside columns 0..9, above the
\* bottom bound, on no filled cell), whatever moves, rotations, holds, ticks,
\* hard drops and garbage receipts came before.
C38_CurrentPieceValid ==
  (gameState # <<>> /\ ~gameState[1].IsGameOver)
    => IsValidPosition(gameState[1].Board, gameState[1].CurrentPiece, 0, 0)

\* ------------------------------------------- the client in a room
\* Bounds of the coupled run.
MaxInputs == 6     \* key presses and top-outs the clients handle over a run
MaxQueue == 1      \* messages queued to one client and not handled yet

\* The orders a map of members may be iterated in.
Orderings(S) ==
  {f \in [1..Cardinality(S) -> S] :
     \A i, j \in 1..Cardinality(S) : i # j => f[i] # f[j]}

\* cycleTarget: the opponents that are alive, in the order of m.opponents.
aliveIDs(m) == SelectSeq(m.opponents, LAMBDA o : o.alive)

\* cycleTarget: the position of the current target among them (0: random).
currentPos(ids, targetID) ==
  IF \E i \in 1..Len(ids) : ids[i].id = targetID
  THEN CHOOSE i \in 1..Len(ids) :
         ids[i].id = targetID /\ \A j \in 1..(i - 1) : ids[j].id # targetID
  ELSE 0

\* cycleTarget: the Model after it and the frame it sends, if any.
cycleTarget(m) ==
  IF m.opponents = <<>> THEN [m |-> m, sent |-> <<>>]
  ELSE IF aliveIDs(m) = <<>>
  THEN [m |-> [m EXCEPT !.targetID = NoPlayer], sent |-> <<>>]
  ELSE LET ids == aliveIDs(m)
           nextPos == currentPos(ids, m.targetID) + 1
           t == IF nextPos > Len(ids) THEN NoPlayer ELSE ids[nextPos].id
       IN  [m |-> [m EXCEPT !.targetID = t],
            sent |-> <<[type |-> "set_target", target_id |-> t]>>]

\* handleServerMsg: the Model after message msg; order is the order the
\* opponents of an opponent_update arrive in.
handleServerMsg(m, msg, order) ==
  IF msg.type = "countdown"
  THEN IF m.screen \in {"lobby", "countdown"} THEN [m EXCEPT !.screen = "countdown"]
       ELSE m
  ELSE IF msg.type = "game_start"
  THEN [m EXCEPT !.targetID = NoPlayer, !.gameState = "playing", !.screen = "playing"]
  ELSE IF msg.type = "opponent_update"
  THEN [m EXCEPT !.opponents = [i \in DOMAIN order |->
                                  [id |-> order[i].id, alive |-> order[i].alive]]]
  ELSE IF msg.type = "match_over" THEN [m EXCEPT !.screen = "gameover"]
  ELSE m

\* The step record of a client step: nothing is sent to clients by it.
ClientEv(op, p, res) == Ev(op, p, NoRoom, PhaseLobby, 0, res, NoOut)

\* Every message the last step queued has reached its client's queue.
Quiet == last.out = NoOut

\* Player.send and the connection: the messages the step just taken queued
\* reach the clients, in the order sent.
Net ==
  /\ ~Quiet
  /\ toClient' = [q \in PlayerIds |-> toClient[q] \o last.out[q]]
  /\ last' = Ev("net", NoPlayer, NoRoom, PhaseLobby, 0, "", NoOut)
  /\ UNCHANGED <<serverVars, chanVars, gens, gameState, keys, holds, tui, toServer,
                 netVars>>

\* Model.Update on a netclient.ServerMsg.
TuiRecv(p) ==
  /\ toClient[p] # <<>>
  /\ LET msg == Head(toClient[p])
     IN  \E order \in IF msg.type = "opponent_update" THEN Orderings(msg.opponents)
                      ELSE {<<>>} :
           tui' = [tui EXCEPT ![p] = handleServerMsg(@, msg, order)]
  /\ toClient' = [toClient EXCEPT ![p] = Tail(@)]
  /\ last' = ClientEv("serverMsg", p, Head(toClient[p]).type)
  /\ UNCHANGED <<serverVars, chanVars, gens, gameState, keys, holds, toServer,
                 netVars>>

\* A key press or a lock counted against the bound.
Input ==
  /\ keys < MaxInputs
  /\ keys' = keys + 1
  /\ UNCHANGED <<serverVars, chanVars, gens, gameState, holds, toClient, netVars>>

\* handlePlayingKeys, "tab".
TuiTab(p) ==
  /\ tui[p].screen = "playing"
  /\ tui[p].gameState = "playing"
  /\ tui' = [tui EXCEPT ![p] = cycleTarget(@).m]
  /\ toServer' = [toServer EXCEPT ![p] = @ \o cycleTarget(tui[p]).sent]
  /\ last' = ClientEv("tab", p, IF cycleTarget(tui[p]).sent = <<>> THEN "" ELSE "sent")
  /\ Input

\* A lock that ends the local game (hard drop or gravity), then
\* checkLocalGameOver.
TuiTopOut(p) ==
  /\ tui[p].screen = "playing"
  /\ tui[p].gameState = "playing"
  /\ tui' = [tui EXCEPT ![p].gameState = "over"]
  /\ toServer' = [toServer EXCEPT ![p] = Append(@, [type |-> "player_dead"])]
  /\ last' = ClientEv("topOut", p, "sent")
  /\ Input

\* handleGameOverKeys, "enter": back to the lobby screen.
TuiEnter(p) ==
  /\ tui[p].screen = "gameover"
  /\ tui' = [tui EXCEPT ![p].screen = "lobby", ![p].ready = FALSE,
                        ![p].opponents = <<>>, ![p].gameState = "nil"]
  /\ toServer' = toServer
  /\ last' = ClientEv("enter", p, "")
  /\ Input

\* handleLobbyKeys, " ": toggle ready and tell the server.
TuiSpace(p) ==
  /\ tui[p].screen = "lobby"
  /\ tui' = [tui EXCEPT ![p].ready = ~@]
  /\ toServer' = [toServer EXCEPT
                    ![p] = Append(@, [type |-> "ready", ready |-> ~tui[p].ready])]
  /\ last' = ClientEv("space", p, "sent")
  /\ Input

\* The server's readPump takes the client's next frame and handleMessage
\* dispatches it.
ReadFrame(p) ==
  /\ toServer[p] # <<>>
  /\ LET f == Head(toServer[p])
     IN  \/ f.type = "ready" /\ onReady(p, f.ready)
         \/ f.type = "set_target" /\ onSetTarget(p, f.target_id)
         \/ f.type = "player_dead" /\ onPlayerDead(p)
  /\ toServer' = [toServer EXCEPT ![p] = Tail(@)]
  /\ UNCHANGED <<events, chanVars, gens, gameState, keys, holds, tui, toClient,
                 netVars>>

\* No client has MaxQueue messages waiting (a timer sends only then).
Room4More == \A q \in PlayerIds : Len(toClient[q]) < MaxQueue

\* Two members, created and joined through the front desk, both ready, the
\* countdown run and startGame's broadcast just made: game_start is on its
\* way to both clients, which show the countdown.
InitTarget ==
  /\ hubRooms = [ABCDE |-> 1]
  /\ hubPlayers = {1, 3}
  /\ pendingJoins = << >>
  /\ nextID = 4
  /\ now = 0
  /\ rooms = <<[newRoom("ABCDE") EXCEPT !.players = {1, 3}, !.phase = PhasePlaying,
                                       !.seed = 1]>>
  /\ players = (1 :> newPlayer(1, "Player", "ABCDE") @@ 3 :> newPlayer(3, "ann", "ABCDE"))
  /\ conn = (1 :> [room |-> 1, name |-> "Player", ready |-> FALSE, pc |-> "reading",
                   token |-> 2, param |-> "abcde", hroom |-> 1, writer |-> "running"]
             @@ 3 :> [room |-> 1, name |-> "ann", ready |-> FALSE, pc |-> "reading",
                      token |-> 4, param |-> "abcde", hroom |-> 1, writer |-> "running"])
  /\ tasks = SetToBag({Task("broadcastLoop", 1, 0, {})})
  /\ last = Ev("gameStart", NoPlayer, 1, PhasePlaying, 1, "",
               BroadcastOut(rooms[1], [type |-> "game_start", seed |-> 1, ids |-> {1, 3}]))
  /\ issued = (2 :> [CreatedAt |-> 0, RoomCode |-> "ABCDE", PlayerName |-> "Player",
                     PlayerID |-> 1]
               @@ 4 :> [CreatedAt |-> 0, RoomCode |-> "ABCDE", PlayerName |-> "ann",
                        PlayerID |-> 3])
  /\ consumes = (2 :> 1 @@ 4 :> 1)
  /\ matchSeeds = <<{1}>>
  /\ events = 2
  /\ sendCh = <<>>
  /\ sendClosed = FALSE
  /\ sendSeq = 0
  /\ gens = <<>>
  /\ gameState = <<>>
  /\ keys = 0
  /\ holds = 0
  /\ tui = [p \in PlayerIds |->
              IF p \in {1, 3} THEN [NewModel EXCEPT !.screen = "countdown", !.ready = TRUE]
              ELSE NewModel]
  /\ toServer = [p \in PlayerIds |-> <<>>]
  /\ toClient = [p \in PlayerIds |-> <<>>]
  /\ InitNet

\* Two clients in their room over matches: the messages of each step are
\* delivered before the next step is taken.
NextTarget ==
  \/ Net
  \/ \E p \in PlayerIds : Quiet /\ TuiRecv(p)
  \/ \E p \in PlayerIds : Quiet /\ TuiTab(p)
  \/ \E p \in PlayerIds : Quiet /\ TuiTopOut(p)
  \/ \E p \in PlayerIds : Quiet /\ TuiEnter(p)
  \/ \E p \in PlayerIds : Quiet /\ TuiSpace(p)
  \/ \E p \in PlayerIds : Quiet /\ ReadFrame(p)
  \/ \E p \in PlayerIds : Quiet /\ Room4More /\ ReadyCheck(p)
  \/ \E p \in PlayerIds : Quiet /\ ReadyStart(p)
  \/ \E t \in BagToSet(tasks) : Quiet /\ Room4More /\ CountdownTick(t)
  \/ \E t \in BagToSet(tasks), seed \in Seeds : Quiet /\ StartGame(t, seed)
  \/ \E t \in BagToSet(tasks) : Quiet /\ Room4More /\ GameStartBroadcast(t)
  \/ \E t \in BagToSet(tasks), viaStop \in BOOLEAN :
       Quiet /\ Room4More /\ BroadcastLoopStep(t, viaStop)
  \/ \E t \in BagToSet(tasks) : Quiet /\ ResetTick(t)
  \/ \E t \in BagToSet(tasks) : Quiet /\ Room4More /\ ResetBroadcast(t)

SpecTarget == InitTarget /\ [][NextTarget]_vars

\* A message of the given type is on its way to or from member p.
InFlight(p) ==
  \/ \E i \in DOMAIN toServer[p] : toServer[p][i].type = "set_target"
  \/ \E i \in DOMAIN toClient[p] : toClient[p][i].type = "game_start"
  \/ \E i \in DOMAIN last.out[p] : last.out[p][i].type = "game_start"

\* Member p's client is in the match its room is playing.
InMatch(p) ==
  /\ p \in rooms[1].players
  /\ rooms[1].phase = PhasePlaying
  /\ tui[p].screen = "playing"
  /\ ~InFlight(p)

\* C39: during a match, once nothing about the target is in flight between
\* them, the target the server has stored for a member equals the target the
\* member's client holds; both are 'random' at the start of every match.
C39_TargetsAgree ==
  \A p \in PlayerIds : InMatch(p) => players[p].TargetID = tui[p].targetID

\* --------------------------------------------- netclient.Client
MaxConns == 3      \* WebSocket connections one Client dials over a run

\* The step record of a Client step.
NetEv(op, arg, res) == Ev(op, NoPlayer, NoRoom, PhaseLobby, arg, res, NoOut)

NetFrame == UNCHANGED <<serverVars, chanVars, gens, gameState, keys, holds, tuiVars>>

\* DisconnectFromRoom under c.mu: nothing when not active; else wsActive =
\* false, close(done) unless it is closed, and the connection closed and
\* forgotten.
AfterDisconnect(c) ==
  IF ~c.wsActive THEN c ELSE [c EXCEPT !.wsActive = FALSE, !.conn = 0]

ConnsAfterDisconnect(c, cs) ==
  IF ~c.wsActive THEN cs
  ELSE [k \in DOMAIN cs |->
          [cs[k] EXCEPT !.doneClosed = IF k = c.done /\ @ = 0 THEN 1 ELSE @,
                        !.closed = IF k = c.conn THEN TRUE ELSE @]]

\* A call of DisconnectFromRoom (the lobby's or the game-over screen's esc,
\* Close).
DisconnectFromRoom ==
  /\ netClient.pc = "idle"
  /\ netClient' = AfterDisconnect(netClient)
  /\ wsConns' = ConnsAfterDisconnect(netClient, wsConns)
  /\ last' = NetEv("disconnectFromRoom", netClient.conn,
                   IF netClient.wsActive THEN "closed" ELSE "return")
  /\ UNCHANGED <<readPumps, program>>
  /\ NetFrame

\* ConnectToRoom up to the dial: an active connection is disconnected first.
ConnectToRoom ==
  /\ netClient.pc = "idle"
  /\ Len(wsConns) < MaxConns
  /\ netClient' = [AfterDisconnect(netClient) EXCEPT !.pc = "dialing"]
  /\ wsConns' = ConnsAfterDisconnect(netClient, wsConns)
  /\ last' = NetEv("connectToRoom", netClient.conn, "")
  /\ UNCHANGED <<readPumps, program>>
  /\ NetFrame

\* The dial returns: on success conn, done and wsActive are set under c.mu
\* and the pumps are started; on failure the error is returned.
Dialled(ok) ==
  /\ netClient.pc = "dialing"
  /\ IF ok
     THEN /\ wsConns' = Append(wsConns, [closed |-> FALSE, lost |-> FALSE, doneClosed |-> 0])
          /\ netClient' = [wsActive |-> TRUE, conn |-> Len(wsConns) + 1,
                           done |-> Len(wsConns) + 1, pc |-> "idle"]
          /\ readPumps' = Append(readPumps, [pc |-> "start", conn |-> 0])
     ELSE /\ netClient' = [netClient EXCEPT !.pc = "idle"]
          /\ UNCHANGED <<wsConns, readPumps>>
  /\ last' = NetEv("dial", Len(wsConns) + 1, IF ok THEN "connected" ELSE "failed")
  /\ UNCHANGED program
  /\ NetFrame

\* Connection k fails without the client having closed it: the server closes
\* it, the network drops it or the read deadline passes.
ConnLost(k) ==
  /\ ~wsConns[k].closed
  /\ ~wsConns[k].lost
  /\ wsConns' = [wsConns EXCEPT ![k].lost = TRUE]
  /\ last' = NetEv("lost", k, "")
  /\ UNCHANGED <<netClient, readPumps, program>>
  /\ NetFrame

\* readPump's first lines: conn := c.conn under c.mu; return if it is nil.
PumpStart(i) ==
  /\ readPumps[i].pc = "start"
  /\ readPumps' = [readPumps EXCEPT
                     ![i] = IF netClient.conn = 0 THEN [pc |-> "exit", conn |-> 0]
                            ELSE [pc |-> "reading", conn |-> netClient.conn]]
  /\ last' = NetEv("readPump", i, IF netClient.conn = 0 THEN "return" ELSE "reading")
  /\ UNCHANGED <<netClient, wsConns, program>>
  /\ NetFrame

\* conn.ReadMessage returns an error: readPump returns.
PumpFail(i) ==
  /\ readPumps[i].pc = "reading"
  /\ wsConns[readPumps[i].conn].closed \/ wsConns[readPumps[i].conn].lost
  /\ readPumps' = [readPumps EXCEPT ![i].pc = "deferred"]
  /\ last' = NetEv("readError", i, "")
  /\ UNCHANGED <<netClient, wsConns, program>>
  /\ NetFrame

\* The DisconnectedMsg readPump i sends, with what was true as it was sent:
\* whether DisconnectFromRoom had closed its connection, whether the
\* connection had failed, whether it was the Client's current one.
DisconnectedMsg(i) ==
  [pump |-> i, conn |-> readPumps[i].conn,
   closed |-> wsConns[readPumps[i].conn].closed,
   lost |-> wsConns[readPumps[i].conn].lost,
   current |-> netClient.conn = readPumps[i].conn]

\* readPump's deferred function: p.Send(DisconnectedMsg{}) if c.wsActive.
PumpDefer(i) ==
  /\ readPumps[i].pc = "deferred"
  /\ readPumps' = [readPumps EXCEPT ![i].pc = "exit"]
  /\ program' = IF netClient.wsActive THEN Append(program, DisconnectedMsg(i))
                ELSE program
  /\ last' = NetEv("deferred", i, IF netClient.wsActive THEN "sent" ELSE "")
  /\ UNCHANGED <<netClient, wsConns>>
  /\ NetFrame

\* One Client: calls of ConnectToRoom and DisconnectFromRoom one after the
\* other, its readPumps and its connections running beside them.
NextNet ==
  \/ DisconnectFromRoom
  \/ ConnectToRoom
  \/ \E ok \in BOOLEAN : Dialled(ok)
  \/ \E k \in DOMAIN wsConns : ConnLost(k)
  \/ \E i \in DOMAIN readPumps : PumpStart(i)
  \/ \E i \in DOMAIN readPumps : PumpFail(i)
  \/ \E i \in DOMAIN readPumps : PumpDefer(i)

SpecNet == Init /\ [][NextNet]_vars

\* Every DisconnectedMsg was sent for a connection that failed, that
\* DisconnectFromRoom had not closed and that was the current one.
OnlyUnexpectedLoss ==
  \A i \in DOMAIN program :
    program[i].lost /\ ~program[i].closed /\ program[i].current

\* close(done) ran at most once for each connection.
DoneOnce == \A k \in DOMAIN wsConns : wsConns[k].doneClosed <= 1

\* A call of DisconnectFromRoom on a Client that is not active changes nothing.
Idempotent ==
  (last'.op = "disconnectFromRoom" /\ ~netClient.wsActive) => UNCHANGED netVars

\* C40: a DisconnectedMsg is reported only for an unexpected loss of the
\* currently active connection, never after an intentional DisconnectFromRoom
\* (also when a new ConnectToRoom completes before the old readPump has
\* finished); DisconnectFromRoom is idempotent and closes done at most once
\* per connection.
C40_DisconnectedOnlyWhenLost ==
  [](OnlyUnexpectedLoss /\ DoneOnce) /\ [][Idempotent]_vars

====
